---- MODULE Spec2Model ----
(***************************************************************************)
(* A model of the reactivity core of the repository: Dep, Observer,        *)
(* defineReactive, Watcher, the scheduler and nextTick.                    *)
(*                                                                         *)
(* Every function of the source is an operator that maps a machine state   *)
(* (a record S holding every module-level variable, every object field and *)
(* every closure variable) to the machine state after the call.  S.exc is  *)
(* TRUE while a JavaScript exception is propagating, S.ret is the value    *)
(* the call returned.  The actions at the end of the module are the entry  *)
(* points a host program (an event handler, the microtask queue) can call. *)
(*                                                                         *)
(* Build configuration: process.env.NODE_ENV is not 'production'.          *)
(* config.async is true unless a specification says otherwise.             *)
(***************************************************************************)
EXTENDS Integers, Sequences, FiniteSets, TLC

RECURSIVE NewObserver(_, _), Walk(_, _, _), ObserveArray(_, _, _)
RECURSIVE DependArray(_, _, _), NotifyFrom(_, _, _), ReadFrom(_, _, _, _)
RECURSIVE DependFrom(_, _, _), CleanupFrom(_, _, _), TeardownFrom(_, _, _)
RECURSIVE get(_, _), run(_, _), reactiveSetter(_, _, _, _), SortById(_)
RECURSIVE Traverse(_, _), TraverseItems(_, _, _), TraverseKeys(_, _, _)
RECURSIVE SplicePos(_, _, _), callUpdatedHooks(_, _, _), CallbacksFrom(_)
RECURSIVE SortItems(_), TeardownAll(_, _, _), flushSchedulerQueue(_), FlushLoop(_)
RECURSIVE isInInactiveTree(_, _), activateChildComponent(_, _, _)
RECURSIVE ActivateChildren(_, _, _), callActivatedHooks(_, _, _), InsertFrom(_, _, _, _)
RECURSIVE insert(_, _, _), destroyHook(_, _), patch(_, _, _, _)
RECURSIVE callActivatedHooksReversed(_, _, _), AddVnodes(_, _, _), RemoveVnodes(_, _)
RECURSIVE callHook(_, _, _), destroy(_, _)
RECURSIVE deactivateChildComponent(_, _, _), DeactivateChildren(_, _, _)
RECURSIVE ForceUpdates(_, _)

(***************************************************************************)
(* Bounds of the model.                                                    *)
(***************************************************************************)
\* the number of Watchers one run of the program constructs
MaxWatchers == 2
\* the same for the program that enqueues Watchers during a flush
MaxOrderWatchers == 3
\* the number of consecutive reads of a computed property recorded together
MaxReads == 3
\* the length an array of the host program may grow to
MaxItems == 2
\* the number of Watchers of the programs that change arrays and objects
MaxFewWatchers == 1
\* the number of Deps constructed before the program stops adding properties
MaxDeps == 7
\* the number of calls of Vue.nextTick the host program makes from its event
\* handlers
MaxCallbacks == 3
\* the number of children of an element
MaxChildren == 4
\* the number of components the host program constructs
MaxInstances == 2

(***************************************************************************)
(* JavaScript values.  Primitives are the strings "0", "1", "NaN" and      *)
(* "undefined"; a structured value is the name of a heap object.           *)
(***************************************************************************)
Undefined == "undefined"
Null == "null"
NaN == "NaN"
Objects == {"data", "o1", "o2", "o3", "o4", "o5"}

isObject(v) == v \in Objects
\* JavaScript's a === b: identity, except that NaN is not identical to itself
StrictEq(a, b) == a = b /\ a # NaN

\* the index a key names: the numbers 0..MaxItems are written as in a path
ArrayIndex == [i \in {"i0", "i1", "i2", "i3", "i4"} |->
                 CASE i = "i0" -> 0 [] i = "i1" -> 1 [] i = "i2" -> 2
                   [] i = "i3" -> 3 [] i = "i4" -> 4]
\* shared/util isValidArrayIndex
isValidArrayIndex(key) == key \in DOMAIN ArrayIndex

\* no Watcher (Dep.target = null / undefined, vm._computedWatchers[key] missing)
NoWatcher == 0
\* no Observer (observe returned undefined, value.__ob__ missing)
NoObserver == 0
\* no component: the $parent of a root component
NoVm == 0

Last(seq) == seq[Len(seq)]
Front(seq) == SubSeq(seq, 1, Len(seq) - 1)
Range(seq) == {seq[i] : i \in 1..Len(seq)}
\* util remove(arr, item): splice out the first occurrence of item
RECURSIVE remove(_, _)
remove(arr, item) ==
  IF arr = << >> THEN << >>
  ELSE IF Head(arr) = item THEN Tail(arr)
  ELSE << Head(arr) >> \o remove(Tail(arr), item)

(***************************************************************************)
(* Events: what a call did, recorded in S.trace for the running action.    *)
(***************************************************************************)
Emit(s, what, who) == [s EXCEPT !.trace = Append(@, << what, who >>)]

\* a local constant: F applied to the value of x
Bind(x, F(_)) == F(x)

\* handleError(e, vm, info): report the error and return
handleError(s, w) == Emit([s EXCEPT !.exc = FALSE], "error", w)
\* warn(msg, vm): report and return
warn(s, w) == Emit(s, "warn", w)

(***************************************************************************)
(* dep.js                                                                  *)
(***************************************************************************)
\* new Dep(): id = uid++, subs = []; the new Dep's id is left in ret
NewDep(s) ==
  [s EXCEPT !.subs = (s.depUid :> << >>) @@ @, !.depUid = @ + 1, !.ret = s.depUid]

addSub(s, d, w) == [s EXCEPT !.subs[d] = Append(@, w)]

removeSub(s, d, w) == [s EXCEPT !.subs[d] = remove(@, w)]

pushTarget(s, t) == [s EXCEPT !.targetStack = Append(@, t), !.target = t]

\* popTarget that clears Dep.target instead of reading the stack
popTargetCleared(s) ==
  [s EXCEPT !.targetStack = Front(@), !.target = NoWatcher]

\* popTarget
popTarget(s) ==
  LET st == Front(s.targetStack)
  IN [s EXCEPT !.targetStack = st,
               !.target = IF st = << >> THEN NoWatcher ELSE Last(st)]

\* Dep.target is the top of targetStack, or nothing when the stack is empty
OnTop(s) ==
  s.target = IF s.targetStack = << >> THEN NoWatcher ELSE Last(s.targetStack)

\* an observer of the calls that push and pop: state s1 at the return of a
\* call entered in state s is reported as "unrestored" when Dep.target or
\* targetStack differ from those of s
Restored(s, s1, who) ==
  IF s1.target = s.target /\ s1.targetStack = s.targetStack /\ OnTop(s1)
  THEN s1
  ELSE Emit(s1, "unrestored", who)

\* addDep that subscribes to every Dep that is new in this evaluation
addDepAgain(s, w, d) ==
  IF d \in s.watchers[w].newDepIds THEN s
  ELSE addSub([s EXCEPT !.watchers[w].newDepIds = @ \cup {d},
                        !.watchers[w].newDeps = Append(@, d)], d, w)

\* Watcher.addDep
addDep(s, w, d) ==
  IF d \in s.watchers[w].newDepIds THEN s
  ELSE IF d \in s.watchers[w].depIds
  THEN [s EXCEPT !.watchers[w].newDepIds = @ \cup {d},
                 !.watchers[w].newDeps = Append(@, d)]
  ELSE addSub([s EXCEPT !.watchers[w].newDepIds = @ \cup {d},
                        !.watchers[w].newDeps = Append(@, d)], d, w)

\* Dep.depend
depend(s, d) ==
  IF s.target # NoWatcher THEN addDep(Emit(s, "depend", d), s.target, d) ELSE s

(***************************************************************************)
(* observer/index.js: Observer, observe, defineReactive                    *)
(***************************************************************************)
toggleObserving(s, value) == [s EXCEPT !.shouldObserve = value]

\* the guard of observe's "else if": may a fresh Observer be made for value
Observable(s, value) ==
  /\ s.shouldObserve
  /\ s.heap[value].type \in {"plain", "array"}
  /\ s.heap[value].extensible
  /\ ~s.heap[value].isVue

\* if (asRootData && ob) ob.vmCount++; return ob
CountRoot(s, asRootData) ==
  IF asRootData /\ s.ret # NoObserver
  THEN [s EXCEPT !.observers[s.ret].vmCount = @ + 1]
  ELSE s

\* observe that makes one more Observer for a value that carries one
observeAgain(s, value, asRootData) ==
  IF ~isObject(value) \/ s.heap[value].type = "vnode"
  THEN [s EXCEPT !.ret = NoObserver]
  ELSE IF s.heap[value].ob # NoObserver
  THEN [s EXCEPT !.subs = (s.depUid :> << >>) @@ @, !.depUid = @ + 1,
                 !.observers = Append(@, [value |-> value, dep |-> s.depUid,
                                          vmCount |-> 0]),
                 !.heap[value].ob = Len(s.observers) + 1,
                 !.ret = Len(s.observers) + 1]
  ELSE IF Observable(s, value)
  THEN CountRoot(NewObserver(s, value), asRootData)
  ELSE [s EXCEPT !.ret = NoObserver]

\* observe that does not test shouldObserve
observeAlways(s, value, asRootData) ==
  IF ~isObject(value) \/ s.heap[value].type = "vnode"
  THEN [s EXCEPT !.ret = NoObserver]
  ELSE IF s.heap[value].ob # NoObserver
  THEN CountRoot([s EXCEPT !.ret = s.heap[value].ob], asRootData)
  ELSE IF Observable([s EXCEPT !.shouldObserve = TRUE], value)
  THEN CountRoot(NewObserver(s, value), asRootData)
  ELSE [s EXCEPT !.ret = NoObserver]

\* observe(value, asRootData); the Observer (or NoObserver) is left in ret
observe(s, value, asRootData) ==
  IF ~isObject(value) \/ s.heap[value].type = "vnode"
  THEN [s EXCEPT !.ret = NoObserver]
  ELSE IF s.heap[value].ob # NoObserver
  THEN CountRoot([s EXCEPT !.ret = s.heap[value].ob], asRootData)
  ELSE IF Observable(s, value)
  THEN CountRoot(NewObserver(s, value), asRootData)
  ELSE [s EXCEPT !.ret = NoObserver]

\* the accessors of defineReactive are installed: dep and childOb (in ret)
\* are the closure's variables, the closure's val stays in heap[obj].val[key]
Install(s, obj, key, dep) ==
  [s EXCEPT !.props = (<< obj, key >> :> [dep |-> dep, childOb |-> s.ret]) @@ @]

\* defineReactive(obj, key)
defineReactive(s, obj, key) ==
  Bind(NewDep(s), LAMBDA s1 :
    Install(observe(s1, s1.heap[obj].val[key], FALSE), obj, key, s1.ret))

\* Observer.walk: defineReactive for keys[i..]
Walk(s, obj, i) ==
  IF i > Len(s.heap[obj].keys) THEN s
  ELSE Walk(defineReactive(s, obj, s.heap[obj].keys[i]), obj, i + 1)

\* Observer.observeArray from item i on
ObserveArray(s, items, i) ==
  IF i > Len(items) THEN s
  ELSE ObserveArray(observe(s, items[i], FALSE), items, i + 1)

\* the Observer's fields are set and def(value, '__ob__', this) is done;
\* the new Dep is in ret
Attach(s, value) ==
  [s EXCEPT !.observers = Append(@, [value |-> value, dep |-> s.ret, vmCount |-> 0]),
            !.heap[value].ob = Len(s.observers) + 1]

\* new Observer(value)
NewObserver(s, value) ==
  Bind(Attach(NewDep(s), value), LAMBDA s2 :
    [(IF s2.heap[value].type = "array"
      THEN ObserveArray(s2, s2.heap[value].items, 1)
      ELSE Walk(s2, value, 1))
     EXCEPT !.ret = s2.heap[value].ob])

\* e && e.__ob__ && e.__ob__.dep.depend()
DependItem(s, e) ==
  IF isObject(e) /\ s.heap[e].ob # NoObserver
  THEN depend(s, s.observers[s.heap[e].ob].dep)
  ELSE s

\* dependArray(value) from item i on
DependArray(s, items, i) ==
  IF i > Len(items) THEN s
  ELSE Bind(DependItem(s, items[i]), LAMBDA s1 :
         DependArray(IF isObject(items[i]) /\ s1.heap[items[i]].type = "array"
                     THEN DependArray(s1, s1.heap[items[i]].items, 1)
                     ELSE s1,
                     items, i + 1))

\* childOb.dep.depend(), and dependArray(value) for an array
DependChild(s, childOb, value) ==
  Bind(depend(s, s.observers[childOb].dep), LAMBDA b :
    IF isObject(value) /\ b.heap[value].type = "array"
    THEN DependArray(b, b.heap[value].items, 1)
    ELSE b)

\* reactiveGetter of property key of obj
reactiveGetter(s, obj, key) ==
  LET value == s.heap[obj].val[key]
      p == s.props[<< obj, key >>]
  IN IF s.target = NoWatcher THEN [s EXCEPT !.ret = value]
     ELSE IF p.childOb = NoObserver THEN [depend(s, p.dep) EXCEPT !.ret = value]
     ELSE [DependChild(depend(s, p.dep), p.childOb, value) EXCEPT !.ret = value]

(***************************************************************************)
(* observer/watcher.js and the computed getter of instance/state.js        *)
(***************************************************************************)
\* the while loop of cleanupDeps over deps[1..i], from the last one down
CleanupFrom(s, w, i) ==
  IF i = 0 THEN s
  ELSE CleanupFrom(IF s.watchers[w].deps[i] \in s.watchers[w].newDepIds
                   THEN s
                   ELSE removeSub(s, s.watchers[w].deps[i], w),
                   w, i - 1)

\* cleanupDeps that leaves the Watcher subscribed to the Deps it dropped
cleanupDepsKeeping(s, w) ==
  [s EXCEPT !.watchers[w].depIds = s.watchers[w].newDepIds,
            !.watchers[w].newDepIds = {},
            !.watchers[w].deps = s.watchers[w].newDeps,
            !.watchers[w].newDeps = << >>]

\* Watcher.cleanupDeps
cleanupDeps(s, w) ==
  Bind(CleanupFrom(s, w, Len(s.watchers[w].deps)), LAMBDA s1 :
    [s1 EXCEPT !.watchers[w].depIds = s1.watchers[w].newDepIds,
               !.watchers[w].newDepIds = {},
               !.watchers[w].deps = s1.watchers[w].newDeps,
               !.watchers[w].newDeps = << >>])

\* the while loop of Watcher.depend over deps[1..i], from the last one down
DependFrom(s, w, i) ==
  IF i = 0 THEN s
  ELSE DependFrom(depend(s, s.watchers[w].deps[i]), w, i - 1)

\* Watcher.depend
watcherDepend(s, w) == DependFrom(s, w, Len(s.watchers[w].deps))

\* the value is stored and the Watcher stays dirty
EvaluatedStaysDirty(s, w) ==
  IF s.exc THEN s ELSE [s EXCEPT !.watchers[w].value = s.ret]

\* this.value = this.get(); this.dirty = false (skipped when get() throws)
Evaluated(s, w) ==
  IF s.exc THEN s
  ELSE [s EXCEPT !.watchers[w].value = s.ret, !.watchers[w].dirty = FALSE]

\* Watcher.evaluate
evaluate(s, w) == Evaluated(get(s, w), w)

\* if (Dep.target) watcher.depend(); return watcher.value
Cached(s, w) ==
  IF s.exc THEN s
  ELSE [(IF s.target # NoWatcher THEN watcherDepend(s, w) ELSE s)
        EXCEPT !.ret = s.watchers[w].value]

\* computedGetter of the computed property key of vm
computedGetter(s, vm, key) ==
  Bind(s.vms[vm]._computedWatchers[key], LAMBDA watcher :
    Cached(IF s.watchers[watcher].dirty THEN evaluate(s, watcher) ELSE s, watcher))

\* vm[key]: the computed getter, or the proxy getter that reads vm._data[key]
ReadVm(s, vm, key) ==
  IF key \in DOMAIN s.vms[vm]._computedWatchers
  THEN computedGetter(s, vm, key)
  ELSE reactiveGetter(s, s.vms[vm]._data, key)

\* obj[key] of a heap object: through the accessor when the key is reactive
ReadProp(s, obj, key) ==
  IF << obj, key >> \in DOMAIN s.props THEN reactiveGetter(s, obj, key)
  ELSE IF key \in DOMAIN s.heap[obj].val THEN [s EXCEPT !.ret = s.heap[obj].val[key]]
  ELSE IF /\ s.heap[obj].type = "array" /\ isValidArrayIndex(key)
          /\ ArrayIndex[key] < Len(s.heap[obj].items)
  THEN [s EXCEPT !.ret = s.heap[obj].items[ArrayIndex[key] + 1]]
  ELSE [s EXCEPT !.ret = Undefined]

\* the loop of the function parsePath returns, from segment i on; the object
\* reached so far is in ret
ReadFrom(s, vm, path, i) ==
  IF i > Len(path) \/ s.exc THEN s
  ELSE IF i = 1 THEN ReadFrom(ReadVm(s, vm, path[1]), vm, path, 2)
  ELSE IF ~isObject(s.ret) THEN [s EXCEPT !.ret = Undefined]
  ELSE ReadFrom(ReadProp(s, s.ret, path[i]), vm, path, i + 1)

\* the function throws when the value it computes is getter.throwOn
Thrown(s, getter) ==
  IF ~s.exc /\ s.ret = getter.throwOn THEN [s EXCEPT !.exc = TRUE] ELSE s

\* vm._update(vnode) of a render function whose tree holds kept-alive
\* components: the patch calls the insert hook of each of their vnodes
Patched(s, w) ==
  IF ~s.exc /\ "inserts" \in DOMAIN s.watchers[w].getter
  THEN [InsertFrom(s, s.watchers[w].getter.inserts, 1, s.watchers[w].vm)
          EXCEPT !.ret = s.ret]
  ELSE IF ~s.exc /\ "keptAlive" \in DOMAIN s.watchers[w].getter
  THEN [patch(s, s.watchers[w].vm, s.watchers[w].getter.keptAlive, s.ret = "1")
          EXCEPT !.ret = s.ret]
  ELSE s

\* a function of the host program that reads vm[getter.first] before it
\* reads the path: function () { this.a; return this.c }
First(s, w) ==
  IF "first" \in DOMAIN s.watchers[w].getter
  THEN ReadVm(s, s.watchers[w].vm, s.watchers[w].getter.first)
  ELSE s

\* this.getter.call(vm, vm): a path expression, or a function of the host
\* program that reads the path
Getter(s, w) ==
  Patched(Thrown(ReadFrom(First(Emit(s, "eval", w), w), s.watchers[w].vm,
                          s.watchers[w].getter.path, 1),
                 s.watchers[w].getter), w)

\* traverse.js _traverse(val, seen)
Traverse(s, val) ==
  IF ~isObject(val) \/ s.heap[val].frozen \/ s.heap[val].type = "vnode" THEN s
  ELSE IF s.heap[val].ob # NoObserver /\ s.observers[s.heap[val].ob].dep \in s.seenObjects
  THEN s
  ELSE Bind(IF s.heap[val].ob # NoObserver
            THEN [s EXCEPT !.seenObjects = @ \cup {s.observers[s.heap[val].ob].dep}]
            ELSE s, LAMBDA s1 :
         IF s1.heap[val].type = "array"
         THEN TraverseItems(s1, val, Len(s1.heap[val].items))
         ELSE TraverseKeys(s1, val, Len(s1.heap[val].keys)))

\* while (i--) _traverse(val[i], seen)
TraverseItems(s, val, i) ==
  IF i = 0 THEN s
  ELSE TraverseItems(Traverse(s, s.heap[val].items[i]), val, i - 1)

\* while (i--) _traverse(val[keys[i]], seen)
TraverseKeys(s, val, i) ==
  IF i = 0 THEN s
  ELSE Bind(ReadProp(s, val, s.heap[val].keys[i]), LAMBDA s1 :
         TraverseKeys(Traverse(s1, s1.ret), val, i - 1))

\* traverse that leaves seenObjects as _traverse filled it
traverseUncleared(s, val) == Traverse(s, val)

\* traverse(val)
traverse(s, val) == [Traverse(s, val) EXCEPT !.seenObjects = {}]

\* a catch clause that rethrows the error of every Watcher
CaughtNever(s, w) == s

\* the catch clause of get
Caught(s, w) ==
  IF s.exc /\ s.watchers[w].user
  THEN [handleError(s, w) EXCEPT !.ret = Undefined]
  ELSE s

\* the end of a try block that cleans up itself: skipped by a throw
OnReturn(s, w) ==
  IF s.exc THEN s
  ELSE [cleanupDeps(IF s.watchers[w].deep THEN traverse(s, s.ret) ELSE s, w)
        EXCEPT !.ret = s.ret]

\* the finally clause of get; the exception of a rethrow keeps propagating
Finally(s, w) ==
  [cleanupDeps(popTarget(IF s.watchers[w].deep /\ ~s.exc THEN traverse(s, s.ret) ELSE s), w)
   EXCEPT !.ret = s.ret]

\* a get without a finally clause: the dependencies are reconciled at the
\* end of the try block
getCleansInTry(s, w) ==
  Restored(s, popTarget(Caught(OnReturn(Getter(pushTarget(s, w), w), w), w)), w)

\* Watcher.get
get(s, w) == Restored(s, Finally(Caught(Getter(pushTarget(s, w), w), w), w), w)

\* vm[key] = val: the proxy setter assigns vm._data[key]; the setter of a
\* computed property without a setter warns
WriteVm(s, vm, key, val) ==
  IF key \in DOMAIN s.vms[vm]._computedWatchers
  THEN warn(s, s.vms[vm]._computedWatchers[key])
  ELSE reactiveSetter(s, s.vms[vm]._data, key, val)

\* the other one of the values "0" and "1"
Toggle(v) == IF v = "0" THEN "1" ELSE "0"

\* this.cb.call(this.vm, value, oldValue): a callback of the host program
CallCb(s, w, value, oldValue) ==
  Bind(s.watchers[w], LAMBDA watcher :
    CASE watcher.cb.kind = "noop" -> Emit(s, "cb", w)
      [] watcher.cb.kind = "throw" -> [Emit(s, "cb", w) EXCEPT !.exc = TRUE]
      [] watcher.cb.kind = "assign" ->
           WriteVm(Emit(s, "cb", w), watcher.vm, watcher.cb.key, watcher.cb.val)
      [] watcher.cb.kind = "toggle" ->
           Bind(ReadVm(Emit(s, "cb", w), watcher.vm, watcher.cb.key), LAMBDA s1 :
             WriteVm(s1, watcher.vm, watcher.cb.key, Toggle(s1.ret))))

\* try { cb } catch (e) { handleError } of a user Watcher
CbCaught(s, w) ==
  IF s.exc /\ s.watchers[w].user THEN handleError(s, w) ELSE s

\* the body of run's inner if: set the new value and call the callback
Fire(s, w, value) ==
  CbCaught(CallCb([s EXCEPT !.watchers[w].value = value], w, value,
                  s.watchers[w].value), w)

\* run that invokes the callback after every evaluation
runAlways(s, w) ==
  IF ~s.watchers[w].active THEN s
  ELSE Bind(get(s, w), LAMBDA s1 : IF s1.exc THEN s1 ELSE Fire(s1, w, s1.ret))

\* Watcher.run
run(s, w) ==
  IF ~s.watchers[w].active THEN s
  ELSE Bind(get(s, w), LAMBDA s1 :
         IF s1.exc THEN s1
         ELSE IF \/ ~StrictEq(s1.ret, s1.watchers[w].value)
                 \/ isObject(s1.ret)
                 \/ s1.watchers[w].deep
         THEN Fire(s1, w, s1.ret)
         ELSE s1)

(***************************************************************************)
(* util/next-tick.js                                                       *)
(***************************************************************************)
\* the function flushSchedulerQueue as the argument of nextTick
FlushCb == [kind |-> "flushSchedulerQueue", id |-> 0]

\* timerFunc(): one more flushCallbacks task waits in the host's task queue
timerFunc(s) == [s EXCEPT !.timers = @ + 1]

\* nextTick that puts the callback in front of the ones that wait
nextTickFirst(s, cb) ==
  IF ~s.pending
  THEN timerFunc([s EXCEPT !.callbacks = << cb >> \o @, !.pending = TRUE])
  ELSE [s EXCEPT !.callbacks = << cb >> \o @]

\* nextTick(cb)
nextTick(s, cb) ==
  IF ~s.pending
  THEN timerFunc([s EXCEPT !.callbacks = Append(@, cb), !.pending = TRUE])
  ELSE [s EXCEPT !.callbacks = Append(@, cb)]

(***************************************************************************)
(* observer/scheduler.js                                                   *)
(***************************************************************************)
MAX_UPDATE_COUNT == 100

resetSchedulerState(s) ==
  [s EXCEPT !.index = 0, !.queue = << >>, !.activatedChildren = << >>,
            !.has = {}, !.circular = << >>,
            !.waiting = FALSE, !.flushing = FALSE]

\* the Watcher is put at the end of the queue whatever its id
SplicePosEnd(s, id, i) == i

\* the Watcher is put directly after the cursor whatever its id
SplicePosCursor(s, id, i) == s.index

\* the while loop of queueWatcher; i and index count from 0 as in the source
SplicePos(s, id, i) ==
  IF i > s.index /\ s.queue[i + 1] > id THEN SplicePos(s, id, i - 1) ELSE i

\* queue.splice(i + 1, 0, watcher)
Splice(q, i, w) == SubSeq(q, 1, i + 1) \o << w >> \o SubSeq(q, i + 2, Len(q))

\* if (!waiting) { waiting = true; if (!config.async) { flushSchedulerQueue();
\* return }; nextTick(flushSchedulerQueue) }
Schedule(s) ==
  IF s.waiting THEN s
  ELSE IF ~s.config.async THEN flushSchedulerQueue([s EXCEPT !.waiting = TRUE])
  ELSE nextTick([s EXCEPT !.waiting = TRUE], FlushCb)

queueWatcher(s, w) ==
  IF w \in s.has THEN s
  ELSE Schedule(Emit([s EXCEPT !.has = @ \cup {w},
                               !.queue = IF ~s.flushing
                                         THEN Append(@, w)
                                         ELSE Splice(@, SplicePos(s, w, Len(@) - 1), w)],
                     "queue", w))

\* update that enqueues a sync Watcher like any other
updateQueued(s, w) ==
  IF s.watchers[w].lazy THEN [s EXCEPT !.watchers[w].dirty = TRUE]
  ELSE queueWatcher(s, w)

\* Watcher.update
update(s, w) ==
  IF s.watchers[w].lazy THEN [s EXCEPT !.watchers[w].dirty = TRUE]
  ELSE IF s.watchers[w].sync THEN run(s, w)
  ELSE queueWatcher(s, w)

\* the for loop of Dep.notify over the copy subs, from subs[i] on
NotifyFrom(s, subs, i) ==
  IF i > Len(subs) \/ s.exc THEN s
  ELSE NotifyFrom(update(s, subs[i]), subs, i + 1)

\* Dep.notify that calls the subscribers in the order they subscribed in
notifyUnsorted(s, d) == NotifyFrom(Emit(s, "notify", d), s.subs[d], 1)

\* Dep.notify: the copy of subs is sorted by id when config.async is off
notify(s, d) ==
  NotifyFrom(Emit(s, "notify", d),
             IF ~s.config.async THEN SortById(s.subs[d]) ELSE s.subs[d], 1)

\* childOb = observe(newVal)
Rebind(s, obj, key) == [s EXCEPT !.props[<< obj, key >>].childOb = s.ret]

\* the setter that compares with === only
reactiveSetterStrict(s, obj, key, newVal) ==
  Bind(s.heap[obj].val[key], LAMBDA value :
    IF StrictEq(newVal, value)
    THEN s
    ELSE notify(Rebind(observe([s EXCEPT !.heap[obj].val[key] = newVal], newVal, FALSE),
                       obj, key),
                s.props[<< obj, key >>].dep))

\* reactiveSetter of property key of obj
reactiveSetter(s, obj, key, newVal) ==
  Bind(s.heap[obj].val[key], LAMBDA value :
    IF StrictEq(newVal, value) \/ (~StrictEq(newVal, newVal) /\ ~StrictEq(value, value))
    THEN s
    ELSE notify(Rebind(observe([s EXCEPT !.heap[obj].val[key] = newVal], newVal, FALSE),
                       obj, key),
                s.props[<< obj, key >>].dep))

(***************************************************************************)
(* observer/array.js: the seven intercepted methods of an observed array   *)
(***************************************************************************)
methodsToPatch == {"push", "pop", "shift", "unshift", "splice", "sort", "reverse"}

\* the place of a value in the order of Array.prototype.sort without a
\* comparator: by the string of the value, undefined last
SortRank(v) ==
  CASE v = "0" -> 0
    [] v = "1" -> 1
    [] v = NaN -> 2
    [] v = Undefined -> 4
    [] OTHER -> 3

\* Array.prototype.sort: a stable insertion of the head into the sorted tail
SortItems(items) ==
  IF items = << >> THEN << >>
  ELSE Bind(SortItems(Tail(items)), LAMBDA r :
         SelectSeq(r, LAMBDA x : SortRank(x) < SortRank(Head(items)))
           \o << Head(items) >>
           \o SelectSeq(r, LAMBDA x : SortRank(x) >= SortRank(Head(items))))

ReverseItems(items) == [i \in 1..Len(items) |-> items[Len(items) + 1 - i]]

Min(a, b) == IF a < b THEN a ELSE b
Max(a, b) == IF a > b THEN a ELSE b

\* Array.prototype.splice(start, deleteCount, ...items)
SpliceItems(items, start, deleteCount, ins) ==
  Bind(Min(start, Len(items)), LAMBDA from :
    SubSeq(items, 1, from) \o ins
      \o SubSeq(items, from + Min(deleteCount, Len(items) - from) + 1, Len(items)))

\* original.apply(this, args): the array after the native method
Original(items, method, args) ==
  CASE method = "push" -> items \o args.items
    [] method = "pop" -> IF items = << >> THEN << >> ELSE Front(items)
    [] method = "shift" -> IF items = << >> THEN << >> ELSE Tail(items)
    [] method = "unshift" -> args.items \o items
    [] method = "splice" -> SpliceItems(items, args.start, args.deleteCount, args.items)
    [] method = "sort" -> SortItems(items)
    [] method = "reverse" -> ReverseItems(items)

\* the switch of mutator: the arguments that are new elements
Inserted(method, args) ==
  IF method \in {"push", "unshift", "splice"} THEN args.items ELSE << >>

\* the mutator that leaves the new elements as they are
mutatorUnobserving(s, arr, method, args) ==
  notify([s EXCEPT !.heap[arr].items = Original(@, method, args)],
         s.observers[s.heap[arr].ob].dep)

\* mutator(...args) of an array that carries an Observer
mutator(s, arr, method, args) ==
  notify(ObserveArray([s EXCEPT !.heap[arr].items = Original(@, method, args)],
                      Inserted(method, args), 1),
         s.observers[s.heap[arr].ob].dep)

\* arr[method](...args): the intercepted method when the array was augmented
\* by an Observer, the native one otherwise
CallMethod(s, arr, method, args) ==
  IF s.heap[arr].ob # NoObserver
  THEN mutator(s, arr, method, args)
  ELSE [s EXCEPT !.heap[arr].items = Original(@, method, args)]

(***************************************************************************)
(* observer/index.js: set and del                                          *)
(***************************************************************************)
\* shared/util isUndef and isPrimitive
isUndef(v) == v \in {Undefined, Null}
isPrimitive(v) == v \in {"0", "1", NaN}

\* the length is left as it is
SetLengthKept(items, n) == items

\* target.length = n: holes are read as undefined
SetLength(items, n) ==
  IF n <= Len(items) THEN SubSeq(items, 1, n)
  ELSE items \o [i \in 1..(n - Len(items)) |-> Undefined]

\* key in target, for a key that Object.prototype does not have
HasKey(s, target, key) == key \in DOMAIN s.heap[target].val

\* target[key] = val in strict mode: through the accessor of a reactive
\* property; a TypeError when the object cannot take the property
AssignProp(s, target, key, val) ==
  IF << target, key >> \in DOMAIN s.props THEN reactiveSetter(s, target, key, val)
  ELSE IF s.heap[target].frozen \/ (~HasKey(s, target, key) /\ ~s.heap[target].extensible)
  THEN [s EXCEPT !.exc = TRUE]
  ELSE IF HasKey(s, target, key) THEN [s EXCEPT !.heap[target].val[key] = val]
  ELSE [s EXCEPT !.heap[target].val = (key :> val) @@ @,
                 !.heap[target].keys = Append(@, key)]

\* the warning of the dev build for a target that is no object
WarnTarget(s, target) ==
  IF isUndef(target) \/ isPrimitive(target) THEN warn(s, NoWatcher) ELSE s

\* the property is defined and nobody is notified
DefineSilently(s, target, key, val) ==
  defineReactive([s EXCEPT !.heap[target].val = (key :> val) @@ @,
                           !.heap[target].keys = Append(@, key)],
                 target, key)

\* defineReactive(ob.value, key, val); ob.dep.notify()
DefineAndNotify(s, target, key, val) ==
  notify(defineReactive([s EXCEPT !.heap[target].val = (key :> val) @@ @,
                                  !.heap[target].keys = Append(@, key)],
                        target, key),
         s.observers[s.heap[target].ob].dep)

\* set(target, key, val) after the warning; the value returned is in ret
SetOn(s, target, key, val) ==
  IF ~isObject(target) THEN [s EXCEPT !.exc = TRUE]
  ELSE IF s.heap[target].type = "array" /\ isValidArrayIndex(key)
  THEN [CallMethod([s EXCEPT !.heap[target].items =
                               SetLength(@, Max(Len(@), ArrayIndex[key]))],
                   target, "splice",
                   [start |-> ArrayIndex[key], deleteCount |-> 1, items |-> << val >>])
        EXCEPT !.ret = val]
  ELSE IF HasKey(s, target, key)
  THEN Bind(AssignProp(s, target, key, val), LAMBDA s1 :
         IF s1.exc THEN s1 ELSE [s1 EXCEPT !.ret = val])
  ELSE IF \/ s.heap[target].isVue
          \/ (s.heap[target].ob # NoObserver /\ s.observers[s.heap[target].ob].vmCount > 0)
  THEN [warn(s, NoWatcher) EXCEPT !.ret = val]
  ELSE IF s.heap[target].ob = NoObserver
  THEN Bind(AssignProp(s, target, key, val), LAMBDA s1 :
         IF s1.exc THEN s1 ELSE [s1 EXCEPT !.ret = val])
  ELSE [DefineAndNotify(s, target, key, val) EXCEPT !.ret = val]

\* set(target, key, val): `key in target` throws a TypeError when target is
\* no object
set(s, target, key, val) == SetOn(WarnTarget(s, target), target, key, val)

\* delete target[key]; if (!ob) return; ob.dep.notify()
DeleteAndNotify(s, target, key) ==
  IF s.heap[target].frozen THEN [s EXCEPT !.exc = TRUE]
  ELSE Bind([s EXCEPT !.heap[target].val = [k \in DOMAIN @ \ {key} |-> @[k]],
                      !.heap[target].keys = SelectSeq(@, LAMBDA k : k # key),
                      !.props = [p \in DOMAIN @ \ {<< target, key >>} |-> @[p]]],
            LAMBDA s1 :
         IF s.heap[target].ob = NoObserver THEN s1
         ELSE notify(s1, s.observers[s.heap[target].ob].dep))

\* del(target, key) after the warning
DelOn(s, target, key) ==
  IF isUndef(target) THEN [s EXCEPT !.exc = TRUE]
  ELSE IF isPrimitive(target) THEN s
  ELSE IF s.heap[target].type = "array" /\ isValidArrayIndex(key)
  THEN CallMethod(s, target, "splice",
                  [start |-> ArrayIndex[key], deleteCount |-> 1, items |-> << >>])
  ELSE IF \/ s.heap[target].isVue
          \/ (s.heap[target].ob # NoObserver /\ s.observers[s.heap[target].ob].vmCount > 0)
  THEN warn(s, NoWatcher)
  ELSE IF ~HasKey(s, target, key) THEN s
  ELSE DeleteAndNotify(s, target, key)

\* del(target, key): `target.__ob__` throws a TypeError when target is
\* undefined or null; a number has no own property
del(s, target, key) == [DelOn(WarnTarget(s, target), target, key) EXCEPT !.ret = Undefined]

\* the queue is left as the invalidations ordered it
Unsorted(q) == q

\* queue.sort((a, b) => a.id - b.id): insertion of the head into the sorted tail
SortById(q) ==
  IF q = << >> THEN << >>
  ELSE Bind(SortById(Tail(q)), LAMBDA r :
         SelectSeq(r, LAMBDA x : x < Head(q)) \o << Head(q) >>
           \o SelectSeq(r, LAMBDA x : x >= Head(q)))

\* the activated and deactivated handlers of the host program: each keeps
\* the name of the hook in this.last, and reports "repeated" when it finds
\* its own name there
Recorded(s, vm, hook) ==
  [(IF s.vms[vm].last = hook THEN Emit(s, "repeated", vm) ELSE s)
   EXCEPT !.vms[vm].last = hook]

\* the for loop of callHook over vm.$options[hook]: the handlers of the host
\* program.  The only handler that does more than return is a beforeDestroy
\* handler that calls this.$destroy() the first time it runs:
\* beforeDestroy () { if (!this.called) { this.called = true; this.$destroy() } }
Handlers(s, vm, hook) ==
  IF hook = "beforeDestroy" /\ s.vms[vm].beforeDestroy.kind = "destroy"
     /\ ~s.vms[vm].called
  THEN destroy([s EXCEPT !.vms[vm].called = TRUE], vm)
  ELSE IF hook \in {"activated", "deactivated"}
  THEN Recorded(s, vm, hook)
  ELSE s

\* lifecycle.js callHook(vm, hook)
callHook(s, vm, hook) ==
  Restored(s, popTarget(Handlers(Emit(pushTarget(s, NoWatcher), hook, vm), vm, hook)),
           NoWatcher)

\* lifecycle.js isInInactiveTree(vm)
isInInactiveTree(s, vm) ==
  IF s.vms[vm].parent = NoVm THEN FALSE
  ELSE IF s.vms[s.vms[vm].parent]._inactive = "true" THEN TRUE
  ELSE isInInactiveTree(s, s.vms[vm].parent)

\* the for loop of activateChildComponent over vm.$children from i on
ActivateChildren(s, vm, i) ==
  IF i > Len(s.vms[vm].children) THEN s
  ELSE ActivateChildren(activateChildComponent(s, s.vms[vm].children[i], FALSE),
                        vm, i + 1)

\* lifecycle.js activateChildComponent(vm, direct)
activateChildComponent(s, vm, direct) ==
  Bind(IF direct THEN [s EXCEPT !.vms[vm]._directInactive = FALSE] ELSE s, LAMBDA s1 :
    IF direct /\ isInInactiveTree(s1, vm) THEN s1
    ELSE IF ~direct /\ s1.vms[vm]._directInactive THEN s1
    ELSE IF s1.vms[vm]._inactive \in {"true", Null}
    THEN callHook(ActivateChildren([s1 EXCEPT !.vms[vm]._inactive = "false"], vm, 1),
                  vm, "activated")
    ELSE s1)

\* the for loop of deactivateChildComponent over vm.$children from i on
DeactivateChildren(s, vm, i) ==
  IF i > Len(s.vms[vm].children) THEN s
  ELSE DeactivateChildren(deactivateChildComponent(s, s.vms[vm].children[i], FALSE),
                          vm, i + 1)

\* lifecycle.js deactivateChildComponent(vm, direct)
deactivateChildComponent(s, vm, direct) ==
  Bind(IF direct THEN [s EXCEPT !.vms[vm]._directInactive = TRUE] ELSE s, LAMBDA s1 :
    IF direct /\ isInInactiveTree(s1, vm) THEN s1
    ELSE IF s1.vms[vm]._inactive # "true"
    THEN callHook(DeactivateChildren([s1 EXCEPT !.vms[vm]._inactive = "true"], vm, 1),
                  vm, "deactivated")
    ELSE s1)

\* componentVNodeHooks.destroy(vnode) for the vnode of the kept-alive
\* component vm
destroyHook(s, vm) ==
  IF ~s.vms[vm]._isDestroyed THEN deactivateChildComponent(s, vm, TRUE) ELSE s

\* scheduler.js queueActivatedComponent(vm)
queueActivatedComponent(s, vm) ==
  Emit([s EXCEPT !.vms[vm]._inactive = "false", !.activatedChildren = Append(@, vm)],
       "queueActivated", vm)

\* componentVNodeHooks.insert(vnode) for the vnode of the kept-alive
\* component vm in the tree of the component context
insert(s, vm, context) ==
  Bind(IF ~s.vms[vm]._isMounted
       THEN callHook([s EXCEPT !.vms[vm]._isMounted = TRUE], vm, "mounted")
       ELSE s, LAMBDA s1 :
    IF s1.vms[context]._isMounted
    THEN queueActivatedComponent(s1, vm)
    ELSE activateChildComponent(s1, vm, TRUE))

\* the insert hooks of the vnodes of the components inserts[i..], in order
InsertFrom(s, inserts, i, context) ==
  IF i > Len(inserts) THEN s
  ELSE InsertFrom(insert(s, inserts[i], context), inserts, i + 1, context)

\* vm._update(vnode) for a tree that holds the vnode of the kept-alive
\* component child or does not: vm._vnode = vnode, and the patch calls the
\* destroy hook of a vnode the new tree has no more and the insert hook of
\* a vnode it has attached
patch(s, vm, child, shown) ==
  IF shown /\ s.vms[vm]._vnode = << >>
  THEN insert([s EXCEPT !.vms[vm]._vnode = << child >>], child, vm)
  ELSE IF ~shown /\ s.vms[vm]._vnode # << >>
  THEN destroyHook([s EXCEPT !.vms[vm]._vnode = << >>], child)
  ELSE s

\* callActivatedHooks that walks its queue from the last entry to the first
callActivatedHooksReversed(s, q, i) ==
  IF i > Len(q) THEN s
  ELSE Bind(q[Len(q) + 1 - i], LAMBDA vm :
         callActivatedHooksReversed(
           activateChildComponent([s EXCEPT !.vms[vm]._inactive = "true"], vm, TRUE),
           q, i + 1))

\* callActivatedHooks(queue): the for loop from queue[i] on (i from 1)
callActivatedHooks(s, q, i) ==
  IF i > Len(q) THEN s
  ELSE callActivatedHooks(
         activateChildComponent([s EXCEPT !.vms[q[i]]._inactive = "true"], q[i], TRUE),
         q, i + 1)

\* watcher.before(), the function mountComponent gives the render Watcher
before(s, w) ==
  IF s.watchers[w].before
     /\ s.vms[s.watchers[w].vm]._isMounted /\ ~s.vms[s.watchers[w].vm]._isDestroyed
  THEN callHook(s, s.watchers[w].vm, "beforeUpdate")
  ELSE s

\* the check with a ceiling that is one run higher
CircularLate(s, id) ==
  IF s.exc THEN s
  ELSE IF id \notin s.has THEN [s EXCEPT !.ret = "continue"]
  ELSE Bind((IF id \in DOMAIN s.circular THEN s.circular[id] ELSE 0) + 1, LAMBDA n :
         IF n > MAX_UPDATE_COUNT + 1
         THEN [warn([s EXCEPT !.circular = (id :> n) @@ @], id) EXCEPT !.ret = "break"]
         ELSE [s EXCEPT !.circular = (id :> n) @@ @, !.ret = "continue"])

\* the check with a ceiling that is one run lower
CircularEarly(s, id) ==
  IF s.exc THEN s
  ELSE IF id \notin s.has THEN [s EXCEPT !.ret = "continue"]
  ELSE Bind((IF id \in DOMAIN s.circular THEN s.circular[id] ELSE 0) + 1, LAMBDA n :
         IF n >= MAX_UPDATE_COUNT
         THEN [warn([s EXCEPT !.circular = (id :> n) @@ @], id) EXCEPT !.ret = "break"]
         ELSE [s EXCEPT !.circular = (id :> n) @@ @, !.ret = "continue"])

\* the dev-build check after watcher.run(): ret says whether the loop breaks
Circular(s, id) ==
  IF s.exc THEN s
  ELSE IF id \notin s.has THEN [s EXCEPT !.ret = "continue"]
  ELSE Bind((IF id \in DOMAIN s.circular THEN s.circular[id] ELSE 0) + 1, LAMBDA n :
         IF n > MAX_UPDATE_COUNT
         THEN [warn([s EXCEPT !.circular = (id :> n) @@ @], id) EXCEPT !.ret = "break"]
         ELSE [s EXCEPT !.circular = (id :> n) @@ @, !.ret = "continue"])

\* the body of the for loop of flushSchedulerQueue
Iteration(s) ==
  Bind(s.queue[s.index + 1], LAMBDA id :
    Circular(run(Emit([before(s, id) EXCEPT !.has = @ \ {id}], "run", id), id), id))

\* the test of the while loop's body of callUpdatedHooks for q[i]
IsUpdated(s, q, i) ==
  /\ s.vms[s.watchers[q[i]].vm]._watcher = q[i]
  /\ s.vms[s.watchers[q[i]].vm]._isMounted
  /\ ~s.vms[s.watchers[q[i]].vm]._isDestroyed

\* callUpdatedHooks(queue): while (i--) over q[1..i]; the iterations whose
\* test fails change nothing, the loop goes on at the last one that passes
callUpdatedHooks(s, q, i) ==
  Bind({j \in 1..i : IsUpdated(s, q, j)}, LAMBDA hits :
    IF hits = {} THEN s
    ELSE Bind(CHOOSE j \in hits : \A k \in hits : k <= j, LAMBDA j :
           callUpdatedHooks(callHook(s, s.watchers[q[j]].vm, "updated"), q, j - 1)))

\* the statements of flushSchedulerQueue after the loop
AfterLoop(s) ==
  callUpdatedHooks(
    callActivatedHooks(Emit(resetSchedulerState(s), "reset", NoWatcher),
                       s.activatedChildren, 1),
    s.queue, Len(s.queue))

\* flushSchedulerQueue up to the first test of its for loop
FlushBegin(s) ==
  Emit([s EXCEPT !.flushing = TRUE, !.queue = SortById(@), !.index = 0],
       "flush", s.queue)

\* flushCallbacks up to its for loop
flushCallbacks(s) ==
  [s EXCEPT !.pending = FALSE, !.copies = s.callbacks, !.callbacks = << >>, !.ci = 1]

\* the test of the for loop of flushSchedulerQueue: the flush goes on with
\* the next iteration, or runs to its end and flushCallbacks goes on
LoopTest(s) ==
  IF s.index < Len(s.queue) THEN [s EXCEPT !.pc = "flush"]
  ELSE CallbacksFrom([AfterLoop(s) EXCEPT !.ci = @ + 1])

\* cb.call(ctx) for a callback of the host program: one that returns, one
\* that throws, one that calls Vue.nextTick with a callback that returns
CallHostCb(s, cb) ==
  CASE cb.kind = "noop" -> Emit(s, "tick", cb.id)
    [] cb.kind = "throw" -> [Emit(s, "tick", cb.id) EXCEPT !.exc = TRUE]
    [] cb.kind = "nextTick" ->
         nextTick([Emit(s, "tick", cb.id) EXCEPT !.calls = @ + 1],
                  [kind |-> "noop", id |-> s.calls + 1])

\* the function nextTick pushed with a catch clause that rethrows
CallbackUncaught(s, cb) == CallHostCb(s, cb)

\* the function nextTick pushed: try { cb.call(ctx) } catch (e) { handleError }
Callback(s, cb) ==
  Bind(CallHostCb(s, cb), LAMBDA s1 :
    IF s1.exc THEN handleError(s1, NoWatcher) ELSE s1)

\* the for loop of flushCallbacks from copies[ci] on; the function nextTick
\* pushed for flushSchedulerQueue goes on in LoopTest.  An exception that
\* leaves copies[ci]() ends flushCallbacks
CallbacksFrom(s) ==
  IF s.exc \/ s.ci > Len(s.copies) THEN [s EXCEPT !.pc = "idle"]
  ELSE IF s.copies[s.ci].kind = "flushSchedulerQueue" THEN LoopTest(FlushBegin(s))
  ELSE CallbacksFrom([Callback(s, s.copies[s.ci]) EXCEPT !.ci = @ + 1])

\* one iteration of the for loop of flushSchedulerQueue and what follows it:
\* an exception leaves the function and is caught by the function nextTick
\* pushed, a break leaves the loop, otherwise index++ and the loop's test
FlushIteration(s) ==
  Bind(Iteration(s), LAMBDA s1 :
    IF s1.exc THEN CallbacksFrom([handleError(s1, NoWatcher) EXCEPT !.ci = @ + 1])
    ELSE IF s1.ret = "break" THEN CallbacksFrom([AfterLoop(s1) EXCEPT !.ci = @ + 1])
    ELSE LoopTest([s1 EXCEPT !.index = @ + 1]))

\* the for loop of flushSchedulerQueue and what follows it, in one call
FlushLoop(s) ==
  IF s.index >= Len(s.queue) THEN AfterLoop(s)
  ELSE Bind(Iteration(s), LAMBDA s1 :
         IF s1.exc THEN s1
         ELSE IF s1.ret = "break" THEN AfterLoop(s1)
         ELSE FlushLoop([s1 EXCEPT !.index = @ + 1]))

\* flushSchedulerQueue called by queueWatcher when config.async is false
flushSchedulerQueue(s) == FlushLoop(FlushBegin(s))

\* the while loop of teardown over deps[1..i], from the last one down
TeardownFrom(s, w, i) ==
  IF i = 0 THEN s
  ELSE TeardownFrom(removeSub(s, s.watchers[w].deps[i], w), w, i - 1)

\* Watcher.teardown
teardown(s, w) ==
  IF ~s.watchers[w].active THEN s
  ELSE [TeardownFrom(IF ~s.vms[s.watchers[w].vm]._isBeingDestroyed
                     THEN [s EXCEPT !.vms[s.watchers[w].vm]._watchers = remove(@, w)]
                     ELSE s,
                     w, Len(s.watchers[w].deps))
        EXCEPT !.watchers[w].active = FALSE]

\* if (vm._watcher) vm._watcher.teardown()
TeardownRender(s, vm) ==
  IF s.vms[vm]._watcher # NoWatcher THEN teardown(s, s.vms[vm]._watcher) ELSE s

\* while (i--) vm._watchers[i].teardown()
TeardownAll(s, vm, i) ==
  IF i = 0 THEN s
  ELSE TeardownAll(teardown(s, s.vms[vm]._watchers[i]), vm, i - 1)

\* if (vm._data.__ob__) vm._data.__ob__.vmCount--
Uncount(s, vm) ==
  IF s.heap[s.vms[vm]._data].ob # NoObserver
  THEN [s EXCEPT !.observers[s.heap[s.vms[vm]._data].ob].vmCount = @ - 1]
  ELSE s

\* $destroy whose guard is set before the beforeDestroy hook is called
destroyGuarded(s, vm) ==
  IF s.vms[vm]._isBeingDestroyed THEN s
  ELSE Bind(TeardownRender(callHook([s EXCEPT !.vms[vm]._isBeingDestroyed = TRUE],
                                    vm, "beforeDestroy"), vm),
            LAMBDA s1 :
         callHook([Uncount(TeardownAll(s1, vm, Len(s1.vms[vm]._watchers)), vm)
                   EXCEPT !.vms[vm]._isDestroyed = TRUE],
                  vm, "destroyed"))

\* lifecycle.js Vue.prototype.$destroy of a root component
destroy(s, vm) ==
  IF s.vms[vm]._isBeingDestroyed THEN s
  ELSE Bind(TeardownRender([callHook(s, vm, "beforeDestroy")
                            EXCEPT !.vms[vm]._isBeingDestroyed = TRUE], vm),
            LAMBDA s1 :
         callHook([Uncount(TeardownAll(s1, vm, Len(s1.vms[vm]._watchers)), vm)
                   EXCEPT !.vms[vm]._isDestroyed = TRUE],
                  vm, "destroyed"))

\* the fields the constructor of Watcher sets before it calls get
Constructed(s, vm, expOrFn, cb, options, isRenderWatcher) ==
  [s EXCEPT !.watcherUid = @ + 1,
            !.vms[vm]._watcher = IF isRenderWatcher THEN s.watcherUid + 1 ELSE @,
            !.vms[vm]._watchers = Append(@, s.watcherUid + 1),
            !.watchers = Append(@,
              [vm |-> vm, deep |-> options.deep, user |-> options.user,
               lazy |-> options.lazy, sync |-> options.sync,
               before |-> options.before, cb |-> cb, id |-> s.watcherUid + 1,
               active |-> TRUE, dirty |-> options.lazy,
               deps |-> << >>, newDeps |-> << >>, depIds |-> {}, newDepIds |-> {},
               getter |-> expOrFn, value |-> Undefined])]

\* this.value = this.lazy ? undefined : this.get(); the new Watcher is in ret
Valued(s, w) ==
  IF s.watchers[w].lazy THEN [s EXCEPT !.ret = w]
  ELSE Bind(get(s, w), LAMBDA s1 :
         IF s1.exc THEN s1 ELSE [s1 EXCEPT !.watchers[w].value = s1.ret, !.ret = w])

\* new Watcher(vm, expOrFn, cb, options, isRenderWatcher)
NewWatcher(s, vm, expOrFn, cb, options, isRenderWatcher) ==
  Valued(Constructed(s, vm, expOrFn, cb, options, isRenderWatcher), s.watcherUid + 1)

\* the options object when none is given (options = options || {})
NoOptions ==
  [deep |-> FALSE, user |-> FALSE, lazy |-> FALSE, sync |-> FALSE,
   before |-> FALSE, immediate |-> FALSE]
computedWatcherOptions == [NoOptions EXCEPT !.lazy = TRUE]
noop == [kind |-> "noop"]

\* if (options.immediate) try { cb.call(vm, watcher.value) } catch { handleError }
Immediate(s, options) ==
  IF s.exc \/ ~options.immediate THEN s
  ELSE Bind(CallCb(s, s.ret, s.watchers[s.ret].value, Undefined), LAMBDA s1 :
         [(IF s1.exc THEN handleError(s1, s.ret) ELSE s1) EXCEPT !.ret = s.ret])

\* Vue.prototype.$watch; ret is the Watcher that unwatchFn tears down
watch(s, vm, expOrFn, cb, options) ==
  Immediate(NewWatcher(s, vm, expOrFn, cb, [options EXCEPT !.user = TRUE], FALSE),
            options)

\* watchers[key] = new Watcher(...) and defineComputed(vm, key, userDef)
Defined(s, vm, key) ==
  IF s.exc THEN s
  ELSE [s EXCEPT !.vms[vm]._computedWatchers = (key :> s.ret) @@ @]

\* the body of the for loop of initComputed for the computed property key
initComputed(s, vm, key, getter) ==
  Defined(NewWatcher(s, vm, getter, noop, computedWatcherOptions, FALSE), vm, key)

\* vm._isMounted = true; callHook(vm, 'mounted')
Mounted(s, vm) ==
  IF s.exc THEN s
  ELSE callHook([s EXCEPT !.vms[vm]._isMounted = TRUE], vm, "mounted")

\* lifecycle.js mountComponent, from callHook(vm, 'beforeMount') on
mountComponent(s, vm, updateComponent) ==
  Mounted(NewWatcher(callHook(s, vm, "beforeMount"), vm, updateComponent, noop,
                     [NoOptions EXCEPT !.before = TRUE], TRUE),
          vm)

(***************************************************************************)
(* The reconciliation of the children of an element (vdom/patch), after    *)
(* the description of the algorithm: the module is not among the sources.  *)
(* A virtual node is its key, all children have the same tag; a live node  *)
(* is named by the key of the virtual node it was created for.             *)
(***************************************************************************)
\* no reconciliation has run
NoPatch == [phase |-> "none"]

\* two virtual nodes are the same node: same tag and same key
sameVnode(a, b) == a = b

\* the position of node in the list of live nodes, 0 when it is not there
LiveIndex(live, node) ==
  IF \E i \in DOMAIN live : live[i] = node
  THEN CHOOSE i \in DOMAIN live : live[i] = node
  ELSE 0

\* the live node after node, Null when node is the last
NextSibling(live, node) ==
  IF LiveIndex(live, node) < Len(live) THEN live[LiveIndex(live, node) + 1] ELSE Null

\* parent.insertBefore(node, ref): node is taken from where it is and put
\* before ref, at the end when ref is Null
InsertBefore(live, node, ref) ==
  Bind(SelectSeq(live, LAMBDA n : n # node), LAMBDA l :
    IF ref = Null \/ LiveIndex(l, ref) = 0 THEN Append(l, node)
    ELSE SubSeq(l, 1, LiveIndex(l, ref) - 1) \o << node >>
           \o SubSeq(l, LiveIndex(l, ref), Len(l)))

\* the state of the reconciliation of oldCh against newCh at its start
updateChildren(oldCh, newCh) ==
  [phase |-> "loop", oldCh |-> oldCh, newCh |-> newCh, live |-> oldCh,
   oldStartIdx |-> 1, oldEndIdx |-> Len(oldCh),
   newStartIdx |-> 1, newEndIdx |-> Len(newCh), ops |-> << >>]

\* the loop goes on while old-start <= old-end and new-start <= new-end
LoopEnds(d) ==
  IF d.oldStartIdx <= d.oldEndIdx /\ d.newStartIdx <= d.newEndIdx
  THEN d ELSE [d EXCEPT !.phase = "after"]

Op(d, what, node) == [d EXCEPT !.ops = Append(@, << what, node >>)]

\* case 4 with the live node put after old-start's live node
MovedLeftAfter(d, node, ref) ==
  [Op(Op(d, "patch", node), "move", node)
     EXCEPT !.live = InsertBefore(@, node, NextSibling(@, ref)),
            !.oldEndIdx = @ - 1, !.newStartIdx = @ + 1]

\* case 4: patch in place, move the live node to before old-start's live
\* node, advance new-start and retreat old-end
MovedLeft(d, node, ref) ==
  [Op(Op(d, "patch", node), "move", node)
     EXCEPT !.live = InsertBefore(@, node, ref),
            !.oldEndIdx = @ - 1, !.newStartIdx = @ + 1]

\* case 3: patch in place, move the live node to after old-end's live node,
\* advance old-start and retreat new-end
MovedRight(d, node, ref) ==
  [Op(Op(d, "patch", node), "move", node)
     EXCEPT !.live = InsertBefore(@, node, NextSibling(@, ref)),
            !.oldStartIdx = @ + 1, !.newEndIdx = @ - 1]

\* case 5: the key of the new-start node is looked up in the old range; a
\* match is moved to before old-start's live node and patched, and its
\* place in the old list is emptied; without a match the node is created
Looked(d, node, ref) ==
  Bind({i \in d.oldStartIdx..d.oldEndIdx : d.oldCh[i] = node}, LAMBDA found :
    IF found = {}
    THEN [Op(d, "create", node)
            EXCEPT !.live = InsertBefore(@, node, ref), !.newStartIdx = @ + 1]
    ELSE [Op(Op(d, "patch", node), "move", node)
            EXCEPT !.live = InsertBefore(@, node, ref),
                   !.oldCh[CHOOSE i \in found : TRUE] = Undefined,
                   !.newStartIdx = @ + 1])

\* one iteration of the loop
Reconcile(d) ==
  Bind([os |-> d.oldCh[d.oldStartIdx], oe |-> d.oldCh[d.oldEndIdx],
        ns |-> d.newCh[d.newStartIdx], ne |-> d.newCh[d.newEndIdx]], LAMBDA n :
    LoopEnds(
      IF n.os = Undefined THEN [d EXCEPT !.oldStartIdx = @ + 1]
      ELSE IF n.oe = Undefined THEN [d EXCEPT !.oldEndIdx = @ - 1]
      ELSE IF sameVnode(n.os, n.ns)
      THEN [Op(d, "patch", n.os) EXCEPT !.oldStartIdx = @ + 1, !.newStartIdx = @ + 1]
      ELSE IF sameVnode(n.oe, n.ne)
      THEN [Op(d, "patch", n.oe) EXCEPT !.oldEndIdx = @ - 1, !.newEndIdx = @ - 1]
      ELSE IF sameVnode(n.os, n.ne) THEN MovedRight(d, n.os, n.oe)
      ELSE IF sameVnode(n.oe, n.ns) THEN MovedLeft(d, n.oe, n.os)
      ELSE Looked(d, n.ns, n.os)))

\* the new nodes newCh[i..newEndIdx] are created and inserted before ref
AddVnodes(d, i, ref) ==
  IF i > d.newEndIdx THEN d
  ELSE AddVnodes([Op(d, "create", d.newCh[i])
                    EXCEPT !.live = InsertBefore(@, d.newCh[i], ref)], i + 1, ref)

\* the old nodes oldCh[i..oldEndIdx] that are left are destroyed
RemoveVnodes(d, i) ==
  IF i > d.oldEndIdx THEN d
  ELSE IF d.oldCh[i] = Undefined THEN RemoveVnodes(d, i + 1)
  ELSE RemoveVnodes([Op(d, "destroy", d.oldCh[i])
                       EXCEPT !.live = SelectSeq(@, LAMBDA n : n # d.oldCh[i])], i + 1)

\* after the loop: the new nodes that are left are created before the node
\* that follows new-end, or the old nodes that are left are destroyed
AfterReconcile(d) ==
  [(IF d.oldStartIdx > d.oldEndIdx
    THEN AddVnodes(d, d.newStartIdx,
                   IF d.newEndIdx + 1 <= Len(d.newCh) THEN d.newCh[d.newEndIdx + 1]
                   ELSE Null)
    ELSE RemoveVnodes(d, d.oldStartIdx))
   EXCEPT !.phase = "done"]

(***************************************************************************)
(* vdom/helpers/resolve-async-component.js.  One async component factory   *)
(* of the host program; S.factory holds the properties the code sets on    *)
(* the factory function (resolved, error, errorComp, loading, loadingComp, *)
(* owners), the variables of the closure the first call creates (sync,     *)
(* timerLoading, timerTimeout, and the called flags of the two once        *)
(* wrappers), and the host's own count of the calls of its function.       *)
(* The constructors are the values "Ctor", "Ctor2", "ErrorComp" and        *)
(* "LoadingComp".                                                          *)
(***************************************************************************)
\* the factory function before its first use; def describes what the host's
\* function does when it is called
NewFactory(def) ==
  [def |-> def, resolved |-> Undefined, error |-> FALSE, errorComp |-> Undefined,
   loading |-> FALSE, loadingComp |-> Undefined, ownersDef |-> FALSE, owners |-> << >>,
   sync |-> TRUE, timerLoading |-> Null, timerTimeout |-> Null,
   resolveCalled |-> FALSE, rejectCalled |-> FALSE, settled |-> FALSE, invoked |-> 0]

\* lifecycle.js Vue.prototype.$forceUpdate
forceUpdate(s, vm) ==
  IF s.vms[vm]._watcher # NoWatcher
  THEN update(Emit(s, "forceUpdate", vm), s.vms[vm]._watcher)
  ELSE Emit(s, "forceUpdate", vm)

\* the for loop of forceRender over owners, from owners[i] on
ForceUpdates(s, i) ==
  IF i > Len(s.factory.owners) THEN s
  ELSE ForceUpdates(forceUpdate(s, s.factory.owners[i]), i + 1)

\* forceRender(renderCompleted)
forceRender(s, renderCompleted) ==
  Bind(ForceUpdates(s, 1), LAMBDA s1 :
    IF renderCompleted
    THEN [s1 EXCEPT !.factory.owners = << >>,
                    !.factory.timerLoading = Null,
                    !.factory.timerTimeout = Null]
    ELSE s1)

\* resolve = once(res => ...)
resolve(s, res) ==
  IF s.factory.resolveCalled THEN s
  ELSE Bind([s EXCEPT !.factory.resolveCalled = TRUE, !.factory.resolved = res],
            LAMBDA s1 :
         IF ~s1.factory.sync THEN forceRender(s1, TRUE)
         ELSE [s1 EXCEPT !.factory.owners = << >>])

\* reject = once(reason => ...)
reject(s) ==
  IF s.factory.rejectCalled THEN s
  ELSE Bind(warn([s EXCEPT !.factory.rejectCalled = TRUE], NoWatcher), LAMBDA s1 :
         IF s1.factory.errorComp # Undefined
         THEN forceRender([s1 EXCEPT !.factory.error = TRUE], TRUE)
         ELSE s1)

\* const res = factory(resolve, reject): the host's function counts its
\* calls; a function of kind "sync" calls resolve before it returns
Invoked(s) ==
  Bind(Emit([s EXCEPT !.factory.invoked = @ + 1], "factory", s.factory.invoked + 1),
       LAMBDA s1 :
    IF s1.factory.def.kind = "sync" THEN resolve(s1, "Ctor") ELSE s1)

\* if (isObject(res)) ...: the then calls are the promise's business; the
\* components and the timers of an object with a component promise are set
Received(s) ==
  IF s.factory.def.kind # "options" THEN s
  ELSE Bind(s.factory.def, LAMBDA res :
    [s EXCEPT !.factory.errorComp = IF res.error THEN "ErrorComp" ELSE @,
              !.factory.loadingComp = IF res.loading THEN "LoadingComp" ELSE @,
              !.factory.loading = IF res.loading /\ res.delay = 0 THEN TRUE ELSE @,
              !.factory.timerLoading = IF res.loading /\ res.delay # 0 THEN "set" ELSE @,
              !.factory.timerTimeout = IF res.timeout THEN "set" ELSE @])

\* the first call for a rendering owner: from "if (owner &&
\* !isDef(factory.owners))" to the return
FirstCall(s, owner) ==
  Bind(Received(Invoked([s EXCEPT !.factory.owners = << owner >>,
                                  !.factory.ownersDef = TRUE,
                                  !.factory.sync = TRUE,
                                  !.factory.timerLoading = Null,
                                  !.factory.timerTimeout = Null])),
       LAMBDA s1 :
    [s1 EXCEPT !.factory.sync = FALSE,
               !.ret = IF s1.factory.loading THEN s1.factory.loadingComp
                       ELSE s1.factory.resolved])

\* the push of an owner that does not look whether owners holds it
AddOwnerAgain(s, owner) ==
  IF owner # NoVm /\ s.factory.ownersDef
  THEN [s EXCEPT !.factory.owners = Append(@, owner)]
  ELSE s

\* if (owner && isDef(factory.owners) && factory.owners.indexOf(owner) === -1)
\* factory.owners.push(owner)
AddOwner(s, owner) ==
  IF owner # NoVm /\ s.factory.ownersDef /\ owner \notin Range(s.factory.owners)
  THEN [s EXCEPT !.factory.owners = Append(@, owner)]
  ELSE s

\* the statements of resolveAsyncComponent after the test of resolved
Pending(s, owner) ==
  Bind(AddOwner(s, owner), LAMBDA s1 :
    IF s1.factory.loading /\ s1.factory.loadingComp # Undefined
    THEN [s1 EXCEPT !.ret = s1.factory.loadingComp]
    ELSE IF owner # NoVm /\ ~s1.factory.ownersDef
    THEN FirstCall(s1, owner)
    ELSE [s1 EXCEPT !.ret = Undefined])

\* resolveAsyncComponent that looks at resolved before it looks at error
resolveAsyncComponentResolvedFirst(s, owner) ==
  IF s.factory.resolved # Undefined THEN [s EXCEPT !.ret = s.factory.resolved]
  ELSE IF s.factory.error /\ s.factory.errorComp # Undefined
  THEN [s EXCEPT !.ret = s.factory.errorComp]
  ELSE Pending(s, owner)

\* resolveAsyncComponent(factory, baseCtor) while owner is
\* currentRenderingInstance (NoVm: no component is rendering)
resolveAsyncComponent(s, owner) ==
  IF s.factory.error /\ s.factory.errorComp # Undefined
  THEN [s EXCEPT !.ret = s.factory.errorComp]
  ELSE IF s.factory.resolved # Undefined THEN [s EXCEPT !.ret = s.factory.resolved]
  ELSE Pending(s, owner)

\* the callback of the loading timer
LoadingTimeout(s) ==
  Bind([s EXCEPT !.factory.timerLoading = Null], LAMBDA s1 :
    IF s1.factory.resolved = Undefined /\ ~s1.factory.error
    THEN forceRender([s1 EXCEPT !.factory.loading = TRUE], FALSE)
    ELSE s1)

\* the callback of the timeout timer
Timeout(s) ==
  Bind([s EXCEPT !.factory.timerTimeout = Null], LAMBDA s1 :
    IF s1.factory.resolved = Undefined THEN reject(s1) ELSE s1)

(***************************************************************************)
(* The state of the program.                                               *)
(***************************************************************************)
VARIABLES
  heap,              \* the objects of the host program: fields and __ob__
  props,             \* the closures of defineReactive: dep and childOb
  observers,         \* the Observer instances, in order of construction
  shouldObserve,     \* observer/index.js shouldObserve
  depUid,            \* dep.js uid
  subs,              \* Dep.subs of every Dep
  target,            \* Dep.target
  targetStack,       \* dep.js targetStack
  watcherUid,        \* watcher.js uid
  watchers,          \* the Watcher instances; the id is the index
  vms,               \* the component instances
  queue, activatedChildren, has, circular, waiting, flushing, index,
  callbacks, pending,
  timers,            \* flushCallbacks tasks the host has yet to run
  copies, ci,        \* the locals copies and i of a running flushCallbacks
  pc,                \* "idle", or "flush" inside the loop of a flush
  config,            \* Vue.config
  calls,             \* the calls of Vue.nextTick the host program has made
  dom,               \* the running or the last reconciliation of children
  seenObjects,       \* traverse.js seenObjects
  factory,           \* the async component factory of the host program
  trace              \* what the last entry point did, in order

vars ==
  << heap, props, observers, shouldObserve, depUid, subs, target, targetStack, watcherUid, watchers, vms,
     queue, activatedChildren, has, circular, waiting, flushing, index, callbacks, pending, timers, copies, ci, pc, config, calls, dom, seenObjects, factory, trace >>

\* the machine state when the host calls an entry point
Cur ==
  [heap |-> heap,
   props |-> props,
   observers |-> observers,
   shouldObserve |-> shouldObserve,
   depUid |-> depUid,
   subs |-> subs,
   target |-> target,
   targetStack |-> targetStack,
   watcherUid |-> watcherUid,
   watchers |-> watchers,
   vms |-> vms,
   queue |-> queue,
   activatedChildren |-> activatedChildren,
   has |-> has,
   circular |-> circular,
   waiting |-> waiting,
   flushing |-> flushing,
   index |-> index,
   callbacks |-> callbacks,
   pending |-> pending,
   timers |-> timers,
   copies |-> copies,
   ci |-> ci,
   pc |-> pc,
   config |-> config,
   calls |-> calls,
   dom |-> dom,
   seenObjects |-> seenObjects,
   factory |-> factory,
   trace |-> << >>,
   exc |-> FALSE, ret |-> Undefined]

\* the entry point returns and leaves the machine in state s
Commit(s) ==
  /\ heap' = s.heap
  /\ props' = s.props
  /\ observers' = s.observers
  /\ shouldObserve' = s.shouldObserve
  /\ depUid' = s.depUid
  /\ subs' = s.subs
  /\ target' = s.target
  /\ targetStack' = s.targetStack
  /\ watcherUid' = s.watcherUid
  /\ watchers' = s.watchers
  /\ vms' = s.vms
  /\ queue' = s.queue
  /\ activatedChildren' = s.activatedChildren
  /\ has' = s.has
  /\ circular' = s.circular
  /\ waiting' = s.waiting
  /\ flushing' = s.flushing
  /\ index' = s.index
  /\ callbacks' = s.callbacks
  /\ pending' = s.pending
  /\ timers' = s.timers
  /\ copies' = s.copies
  /\ ci' = s.ci
  /\ pc' = s.pc
  /\ config' = s.config
  /\ calls' = s.calls
  /\ dom' = s.dom
  /\ seenObjects' = s.seenObjects
  /\ factory' = s.factory
  /\ trace' = s.trace

\* the machine is in state s
Start(s) ==
  /\ heap = s.heap
  /\ props = s.props
  /\ observers = s.observers
  /\ shouldObserve = s.shouldObserve
  /\ depUid = s.depUid
  /\ subs = s.subs
  /\ target = s.target
  /\ targetStack = s.targetStack
  /\ watcherUid = s.watcherUid
  /\ watchers = s.watchers
  /\ vms = s.vms
  /\ queue = s.queue
  /\ activatedChildren = s.activatedChildren
  /\ has = s.has
  /\ circular = s.circular
  /\ waiting = s.waiting
  /\ flushing = s.flushing
  /\ index = s.index
  /\ callbacks = s.callbacks
  /\ pending = s.pending
  /\ timers = s.timers
  /\ copies = s.copies
  /\ ci = s.ci
  /\ pc = s.pc
  /\ config = s.config
  /\ calls = s.calls
  /\ dom = s.dom
  /\ seenObjects = s.seenObjects
  /\ factory = s.factory
  /\ trace = s.trace

(***************************************************************************)
(* The host program: one component whose data option is { a: 0, b: 0 } and *)
(* whose computed option is { c () { return this.a } }, and three more     *)
(* objects the program can store in its data.                              *)
(***************************************************************************)
Vm == 1

Obj(type, keys, val, items, extensible, frozen) ==
  [type |-> type, keys |-> keys, val |-> val, items |-> items,
   extensible |-> extensible, frozen |-> frozen, isVue |-> FALSE, ob |-> NoObserver]

\* data = { a: 0, b: 0 }; o1 = { x: o2 }; o2 = [o1]; o3 = Object.freeze({});
\* o4 = new VNode(); o5 = { y: 0 }
Heap0 ==
  [data |-> Obj("plain", << "a", "b" >>, [a |-> "0", b |-> "0"], << >>, TRUE, FALSE),
   o1 |-> Obj("plain", << "x" >>, [x |-> "o2"], << >>, TRUE, FALSE),
   o2 |-> Obj("array", << >>, << >>, << "o1" >>, TRUE, FALSE),
   o3 |-> Obj("plain", << >>, << >>, << >>, FALSE, TRUE),
   o4 |-> Obj("vnode", << >>, << >>, << >>, TRUE, FALSE),
   o5 |-> Obj("plain", << "y" >>, [y |-> "0"], << >>, TRUE, FALSE)]

\* the machine when the modules are loaded and the component is constructed
Loaded ==
  [heap |-> Heap0, props |-> << >>, observers |-> << >>, shouldObserve |-> TRUE,
   depUid |-> 0, subs |-> << >>, target |-> NoWatcher, targetStack |-> << >>,
   watcherUid |-> 0, watchers |-> << >>,
   vms |-> << [_data |-> "data", _watcher |-> NoWatcher, _watchers |-> << >>,
               _computedWatchers |-> << >>, _isMounted |-> FALSE,
               _isDestroyed |-> FALSE, _isBeingDestroyed |-> FALSE,
               _inactive |-> Null, _directInactive |-> FALSE,
               parent |-> NoVm, children |-> << >>,
               beforeDestroy |-> noop, called |-> FALSE,
               _vnode |-> << >>, last |-> Null] >>,
   queue |-> << >>, activatedChildren |-> << >>, has |-> {}, circular |-> << >>,
   waiting |-> FALSE, flushing |-> FALSE, index |-> 0,
   callbacks |-> << >>, pending |-> FALSE, timers |-> 0,
   copies |-> << >>, ci |-> 0, pc |-> "idle", config |-> [async |-> TRUE],
   calls |-> 0, dom |-> NoPatch, seenObjects |-> {},
   factory |-> NewFactory([kind |-> "none"]),
   trace |-> << >>,
   exc |-> FALSE, ret |-> Undefined]

\* a getter that reads the path and returns what it finds
Path(path) == [path |-> path, throwOn |-> "never"]
\* the computed property c: reads a, and throws when a is NaN
ComputedC == [path |-> << "a" >>, throwOn |-> NaN]

\* state.js initState: initData observes the data as root data, initComputed
\* defines the computed property c when the component has a computed option
initState(s, vm, computed) ==
  IF computed
  THEN initComputed(observe(s, s.vms[vm]._data, TRUE), vm, "c", ComputedC)
  ELSE observe(s, s.vms[vm]._data, TRUE)

\* new Vue({ data }) of a component without computed properties
Init == Start(initState(Loaded, Vm, FALSE))
\* new Vue({ data, computed })
InitLazy == Start(initState(Loaded, Vm, TRUE))
\* the same, after the host has or has not set Vue.config.async = false
InitConfig ==
  \E async \in BOOLEAN :
    Start(initState([Loaded EXCEPT !.config.async = async], Vm, TRUE))

(***************************************************************************)
(* Entry points.  An exception that leaves an entry point is the host's    *)
(* uncaught error: the machine stays as the throw left it.                 *)
(***************************************************************************)
Done(s) ==
  Commit(IF s.exc THEN Emit([s EXCEPT !.exc = FALSE], "uncaught", NoWatcher) ELSE s)

\* the entry point returns the value in ret to the host
Return(s) == IF s.exc THEN s ELSE Emit(s, "value", s.ret)

\* vm.$watch(expOrFn, cb, options) with one of the menu's argument lists
Watch(menu, max) ==
  /\ pc = "idle"
  /\ watcherUid < max
  /\ \E m \in menu : Done(watch(Cur, Vm, m.expOrFn, m.cb, m.options))

\* vm.$mount(): the render function reads what render.path names
Mount(render) ==
  /\ pc = "idle"
  /\ watcherUid < MaxWatchers
  /\ vms[Vm]._watcher = NoWatcher
  /\ Done(mountComponent(Cur, Vm, render))

\* vm[key] = v in an event handler of the host
SetData(values) ==
  /\ pc = "idle"
  /\ \E key \in DOMAIN values : \E v \in values[key] :
       Done(WriteVm(Emit(Cur, "set", key), Vm, key, v))

\* trace tr records reads of the computed property c and nothing else
IsRead(tr) == tr # << >> /\ tr[1][1] = "read"

\* vm.c is read in an event handler of the host; up to MaxReads reads with
\* no other entry point between them are recorded in one trace
ReadComputed ==
  /\ pc = "idle"
  /\ Bind(IF IsRead(trace) /\ Cardinality({i \in DOMAIN trace : trace[i][1] = "read"}) < MaxReads
          THEN [Cur EXCEPT !.trace = trace]
          ELSE Cur, LAMBDA s :
       Done(Return(ReadVm(Emit(s, "read", "c"), Vm, "c"))))

\* the function $watch returned is called for Watcher w
Unwatch ==
  \E w \in 1..Len(watchers) :
    /\ pc = "idle"
    /\ watchers[w].user
    /\ watchers[w].active
    /\ Done(teardown(Emit(Cur, "unwatch", w), w))

\* vm.$destroy() is called by the host
Destroy ==
  /\ pc = "idle"
  /\ Done(destroy(Emit(Cur, "destroy", Vm), Vm))

\* observe(o) is called by the host (Vue.observable, or a plugin)
Observe(objs) ==
  /\ pc = "idle"
  /\ \E o \in objs : Done(Return(observe(Emit(Cur, "observe", o), o, FALSE)))

\* toggleObserving(value) is called
ToggleObserving ==
  /\ pc = "idle"
  /\ \E value \in BOOLEAN : Done(toggleObserving(Emit(Cur, "toggle", value), value))

\* arr[method](...args) in an event handler of the host: the methods that
\* insert are called with one new element, splice deletes at most one
ArrayOp(arrs, values) ==
  /\ pc = "idle"
  /\ \E arr \in arrs, method \in methodsToPatch, v \in values :
       \E start \in 0..Len(heap[arr].items), deleteCount \in 0..1 :
         /\ method \in {"push", "unshift", "splice"} => Len(heap[arr].items) < MaxItems
         /\ method # "splice" => start = 0 /\ deleteCount = 0
         /\ Done(CallMethod(Emit(Emit(Emit(Cur, "call", arr), "method", method),
                                 "arg", v),
                            arr, method,
                            [start |-> start, deleteCount |-> deleteCount,
                             items |-> << v >>]))

\* obj[key] = v in an event handler of the host, for a property obj has
SetProp(objs, values) ==
  /\ pc = "idle"
  /\ \E obj \in objs : \E key \in DOMAIN heap[obj].val : \E v \in values :
       Done(AssignProp(Emit(Emit(Cur, "assign", obj), "key", key), obj, key, v))

\* Vue.set(target, key, val) / vm.$set in an event handler of the host
Set(targets, keys, values) ==
  /\ pc = "idle"
  /\ depUid < MaxDeps
  /\ \E tgt \in targets, key \in keys, val \in values :
       /\ isObject(tgt) /\ heap[tgt].type = "array" /\ isValidArrayIndex(key)
            => ArrayIndex[key] < MaxItems
       /\ Done(Return(set(Emit(Emit(Emit(Cur, "Vue.set", tgt), "key", key),
                               "val", val),
                          tgt, key, val)))

\* Vue.delete(target, key) / vm.$delete in an event handler of the host
Del(targets, keys) ==
  /\ pc = "idle"
  /\ \E tgt \in targets, key \in keys :
       Done(Return(del(Emit(Emit(Cur, "Vue.delete", tgt), "key", key), tgt, key)))

\* Vue.nextTick(cb) in an event handler of the host, for a callback of one
\* of the kinds; the host numbers its callbacks in the order of its calls
NextTick(kinds) ==
  /\ pc = "idle"
  /\ calls < MaxCallbacks
  /\ \E kind \in kinds :
       Done(nextTick([Emit(Emit(Cur, "Vue.nextTick", calls + 1), "kind", kind)
                        EXCEPT !.calls = @ + 1],
                     [kind |-> kind, id |-> calls + 1]))

\* the host runs the flushCallbacks task that timerFunc scheduled, up to the
\* first iteration of a flush
Tick ==
  /\ pc = "idle"
  /\ timers > 0
  /\ Done(CallbacksFrom(flushCallbacks([Cur EXCEPT !.timers = @ - 1])))

\* the running task goes on with one iteration of the flush
FlushStep ==
  /\ pc = "flush"
  /\ Done(FlushIteration([Cur EXCEPT !.trace = trace]))

\* the render function reads a, and throws when a is NaN
Render == [path |-> << "a" >>, throwOn |-> NaN]

Assign(key, val) == [kind |-> "assign", key |-> key, val |-> val]

\* $watch('a', function () { this.b = 1 }), $watch('b', noop)
WatchMenu ==
  {[expOrFn |-> Path(<< "a" >>), cb |-> Assign("b", "1"), options |-> NoOptions],
   [expOrFn |-> Path(<< "b" >>), cb |-> noop, options |-> NoOptions]}

Values == [a |-> {"0", "1", NaN}, b |-> {"0", "1"}]

Next ==
  \/ Watch(WatchMenu, MaxWatchers)
  \/ Mount(Render)
  \/ SetData(Values)
  \/ Tick
  \/ FlushStep

Spec == Init /\ [][Next]_vars

(***************************************************************************)
(* A host program with a watch whose callback always changes what the      *)
(* watch depends on: $watch('a', function () { this.a = 1 - this.a }).     *)
(***************************************************************************)
DivergeMenu ==
  {[expOrFn |-> Path(<< "a" >>), cb |-> [kind |-> "toggle", key |-> "a"],
    options |-> NoOptions],
   [expOrFn |-> Path(<< "a" >>), cb |-> noop, options |-> NoOptions],
   [expOrFn |-> Path(<< "b" >>), cb |-> noop, options |-> NoOptions]}

DivergeValues == [a |-> {"0", "1"}, b |-> {"0", "1"}]

NextDiverge ==
  \/ Watch(DivergeMenu, MaxWatchers)
  \/ SetData(DivergeValues)
  \/ Tick
  \/ FlushStep

SpecDiverge == Init /\ [][NextDiverge]_vars

(***************************************************************************)
(* A host program whose watch of a assigns b in its callback, so that the  *)
(* Watcher of b is enqueued while a flush is running.                      *)
(***************************************************************************)
OrderMenu ==
  {[expOrFn |-> Path(<< "a" >>), cb |-> Assign("b", "1"), options |-> NoOptions],
   [expOrFn |-> Path(<< "a" >>), cb |-> noop, options |-> NoOptions],
   [expOrFn |-> Path(<< "b" >>), cb |-> noop, options |-> NoOptions]}

OrderValues == [a |-> {"0", "1"}, b |-> {"0"}]

NextOrder ==
  \/ Watch(OrderMenu, MaxOrderWatchers)
  \/ SetData(OrderValues)
  \/ Tick
  \/ FlushStep

SpecOrder == Init /\ [][NextOrder]_vars

(***************************************************************************)
(* A host program with the computed property c, which it reads and watches.*)
(***************************************************************************)
LazyMenu ==
  {[expOrFn |-> Path(<< "c" >>), cb |-> noop, options |-> NoOptions]}

NextLazy ==
  \/ Watch(LazyMenu, MaxWatchers)
  \/ SetData(Values)
  \/ ReadComputed
  \/ Unwatch
  \/ Tick
  \/ FlushStep

SpecLazy == InitLazy /\ [][NextLazy]_vars

(***************************************************************************)
(* A host program that stores objects in its data and observes objects.    *)
(***************************************************************************)
ObserveValues == [a |-> {"0", "o1", "o3"}]

NextObserve ==
  \/ Observe(Objects)
  \/ ToggleObserving
  \/ SetData(ObserveValues)

SpecObserve == Init /\ [][NextObserve]_vars

(***************************************************************************)
(* A host program that keeps the array o2 in its data, calls the array's   *)
(* methods and watches a property of the array's first element:            *)
(* $watch('a.0.y', noop).                                                  *)
(***************************************************************************)
ArrayMenu ==
  {[expOrFn |-> Path(<< "a", "i0", "y" >>), cb |-> noop, options |-> NoOptions]}

ArrayValues == [a |-> {"o2"}]

NextArray ==
  \/ Watch(ArrayMenu, MaxFewWatchers)
  \/ SetData(ArrayValues)
  \/ ArrayOp({"o2"}, {"o3", "o5"})
  \/ SetProp({"o5"}, {"0", "1"})
  \/ ToggleObserving
  \/ Tick
  \/ FlushStep

SpecArray == Init /\ [][NextArray]_vars

(***************************************************************************)
(* A host program whose watches read a property of the object in a, so     *)
(* that what an evaluation reads changes with a: $watch('a.x', noop) and   *)
(* $watch(function () { return f(this.a.y) }, noop) with an f that throws  *)
(* for undefined.                                                          *)
(***************************************************************************)
DepsMenu ==
  {[expOrFn |-> Path(<< "a", "x" >>), cb |-> noop, options |-> NoOptions],
   [expOrFn |-> [path |-> << "a", "y" >>, throwOn |-> Undefined], cb |-> noop,
    options |-> NoOptions]}

DepsValues == [a |-> {"0", "o1", "o5"}]

NextDeps ==
  \/ Watch(DepsMenu, MaxWatchers)
  \/ SetData(DepsValues)
  \/ Tick
  \/ FlushStep

SpecDeps == Init /\ [][NextDeps]_vars

(***************************************************************************)
(* A host program that watches a and the computed property c, mounts,      *)
(* cancels its watches and destroys the component.                         *)
(***************************************************************************)
TeardownMenu ==
  {[expOrFn |-> Path(<< "a" >>), cb |-> noop, options |-> NoOptions],
   [expOrFn |-> Path(<< "c" >>), cb |-> noop, options |-> NoOptions]}

TeardownValues == [a |-> {"0", "1"}]

NextTeardown ==
  \/ Watch(TeardownMenu, MaxWatchers)
  \/ Mount(Render)
  \/ SetData(TeardownValues)
  \/ ReadComputed
  \/ Unwatch
  \/ Destroy
  \/ Tick
  \/ FlushStep

SpecTeardown == InitLazy /\ [][NextTeardown]_vars

(***************************************************************************)
(* A host program with a lazy Watcher (the computed property c), sync      *)
(* watches and plain watches: $watch('a', noop, { sync: true }),           *)
(* $watch('a', noop), $watch('c', noop).                                   *)
(***************************************************************************)
Sync == [NoOptions EXCEPT !.sync = TRUE]

PathsMenu ==
  {[expOrFn |-> Path(<< "a" >>), cb |-> noop, options |-> Sync],
   [expOrFn |-> Path(<< "a" >>), cb |-> noop, options |-> NoOptions],
   [expOrFn |-> Path(<< "c" >>), cb |-> noop, options |-> NoOptions]}

NextPaths ==
  \/ Watch(PathsMenu, MaxOrderWatchers)
  \/ SetData(TeardownValues)
  \/ Tick
  \/ FlushStep

SpecPaths == InitConfig /\ [][NextPaths]_vars

(***************************************************************************)
(* A host program with a plain and a deep watch of a: $watch('a', noop),   *)
(* $watch('a', noop, { deep: true }).                                      *)
(***************************************************************************)
Deep == [NoOptions EXCEPT !.deep = TRUE]

RunMenu ==
  {[expOrFn |-> Path(<< "a" >>), cb |-> noop, options |-> NoOptions],
   [expOrFn |-> Path(<< "a" >>), cb |-> noop, options |-> Deep]}

RunValues == [a |-> {"0", "1", NaN, "o5"}]

NextRun ==
  \/ Watch(RunMenu, MaxWatchers)
  \/ SetData(RunValues)
  \/ Tick
  \/ FlushStep

SpecRun == Init /\ [][NextRun]_vars

(***************************************************************************)
(* A host program that stores the object o5 in a, watches a.z, and adds    *)
(* and deletes properties with Vue.set and Vue.delete:                     *)
(* $watch('a.z', noop), Vue.set(o5, 'z', 1), Vue.delete(o5, 'z'); it also  *)
(* calls them for the root data and for targets that are no objects.       *)
(***************************************************************************)
SetTargets == {"o5", "data", Undefined, Null, "0"}

SetMenu ==
  {[expOrFn |-> Path(<< "a", "z" >>), cb |-> noop, options |-> NoOptions]}

SetValues == [a |-> {"o5"}]

NextSet ==
  \/ Watch(SetMenu, MaxFewWatchers)
  \/ SetData(SetValues)
  \/ Observe({"o5"})
  \/ ToggleObserving
  \/ Set(SetTargets, {"z"}, {"0", "1"})
  \/ Del(SetTargets, {"z", "y"})
  \/ SetProp({"o5"}, {"0", "1"})
  \/ Tick
  \/ FlushStep

SpecSet == Init /\ [][NextSet]_vars

(***************************************************************************)
(* A host program that stores the array o2 in a, watches its second        *)
(* element and sets and deletes elements by index: $watch('a.1', noop),    *)
(* Vue.set(o2, 1, v), Vue.delete(o2, 0).                                   *)
(***************************************************************************)
IndexMenu ==
  {[expOrFn |-> Path(<< "a", "i1" >>), cb |-> noop, options |-> NoOptions]}

NextIndex ==
  \/ Watch(IndexMenu, MaxFewWatchers)
  \/ SetData(ArrayValues)
  \/ Set({"o2"}, {"i0", "i1"}, {"0", "o5"})
  \/ Del({"o2"}, {"i0"})
  \/ Tick
  \/ FlushStep

SpecIndex == Init /\ [][NextIndex]_vars

(***************************************************************************)
(* A host program that defers callbacks with Vue.nextTick between its      *)
(* assignments: callbacks that return, that throw, and that defer another. *)
(***************************************************************************)
TickKinds == {"noop", "throw", "nextTick"}

TickMenu ==
  {[expOrFn |-> Path(<< "a" >>), cb |-> noop, options |-> NoOptions]}

NextTicks ==
  \/ NextTick(TickKinds)
  \/ Watch(TickMenu, MaxFewWatchers)
  \/ SetData(TeardownValues)
  \/ Tick
  \/ FlushStep

SpecTick == Init /\ [][NextTicks]_vars

(***************************************************************************)
(* A host program whose functions fail: a watched function that throws     *)
(* when a is NaN, a watch callback that throws, and a render function that *)
(* throws when a is NaN.                                                   *)
(***************************************************************************)
ErrorsMenu ==
  {[expOrFn |-> [path |-> << "a" >>, throwOn |-> NaN], cb |-> noop,
    options |-> NoOptions],
   [expOrFn |-> Path(<< "a" >>), cb |-> [kind |-> "throw"], options |-> NoOptions],
   [expOrFn |-> Path(<< "a" >>), cb |-> noop, options |-> NoOptions]}

ErrorsValues == [a |-> {"0", "1", NaN}]

NextErrors ==
  \/ Watch(ErrorsMenu, MaxOrderWatchers)
  \/ Mount(Render)
  \/ SetData(ErrorsValues)
  \/ Tick
  \/ FlushStep

SpecErrors == Init /\ [][NextErrors]_vars

(***************************************************************************)
(* A host program with three components on the same data: a root whose     *)
(* render function reads a and whose tree holds the kept-alive components  *)
(* 2 and 3, which the host mounts itself, in any order.                    *)
(***************************************************************************)
Components == << 1, 2, 3 >>

\* new Vue(options) for the root and new Vue({ parent: root }) for the others
LoadedComponents ==
  [Loaded EXCEPT !.vms =
     [vm \in DOMAIN Components |->
        IF vm = Vm
        THEN [Loaded.vms[Vm] EXCEPT !.children = Tail(Components)]
        ELSE [Loaded.vms[Vm] EXCEPT !.parent = Vm]]]

InitComponents ==
  Start(initState(initState(initState(LoadedComponents, 1, FALSE), 2, FALSE),
                  3, FALSE))

\* the render functions: the root's patch inserts the vnodes of the
\* kept-alive components in the order of its template
RenderMenu(vm) ==
  IF vm = Vm
  THEN {[path |-> << "a" >>, throwOn |-> "never", inserts |-> ins] :
          ins \in {<< >>, << 2, 3 >>, << 3, 2 >>}}
  ELSE {Path(<< "a" >>)}

\* vm.$mount() of one of the components
MountAny ==
  /\ pc = "idle"
  /\ \E vm \in DOMAIN vms : \E render \in RenderMenu(vm) :
       /\ vms[vm]._watcher = NoWatcher
       /\ Done(mountComponent(Cur, vm, render))

NextComponents ==
  \/ MountAny
  \/ SetData(TeardownValues)
  \/ Tick
  \/ FlushStep

SpecComponents == InitComponents /\ [][NextComponents]_vars

(***************************************************************************)
(* A render that replaces the keyed children of an element by others.      *)
(***************************************************************************)
Keys == {"a", "b", "c", "d"}

\* the lists of up to MaxChildren children with different keys
ChildLists ==
  {ch \in UNION {[1..n -> Keys] : n \in 0..MaxChildren} :
     \A i \in DOMAIN ch : \A j \in DOMAIN ch : ch[i] = ch[j] => i = j}

\* the patch of an element with children oldCh by one with children newCh
\* has come to updateChildren
InitPatch ==
  \E oldCh \in ChildLists : \E newCh \in ChildLists :
    Start([initState(Loaded, Vm, FALSE) EXCEPT !.dom =
             LoopEnds(updateChildren(oldCh, newCh))])

\* one iteration of the loop of updateChildren
PatchStep ==
  /\ dom.phase = "loop"
  /\ Commit([Cur EXCEPT !.dom = Reconcile(dom), !.trace = trace])

\* the statements of updateChildren after the loop
PatchFinish ==
  /\ dom.phase = "after"
  /\ Commit([Cur EXCEPT !.dom = AfterReconcile(dom), !.trace = trace])

NextPatch ==
  \/ PatchStep
  \/ PatchFinish

SpecPatch == InitPatch /\ [][NextPatch]_vars

(***************************************************************************)
(* A host program that constructs components on the data objects data and  *)
(* o5 and on the frozen o3, watches their data and destroys them, also     *)
(* more than once; a component may have the beforeDestroy handler          *)
(* beforeDestroy () { if (!this.called) { this.called = true;              *)
(* this.$destroy() } }.                                                    *)
(***************************************************************************)
DestroyInHook == [kind |-> "destroy"]

\* init.js Vue.prototype._init for new Vue({ data, beforeDestroy })
init(s, data, beforeDestroy) ==
  Bind(Len(s.vms) + 1, LAMBDA vm :
    callHook(initState(callHook([s EXCEPT !.vms =
                                   Append(@, [Loaded.vms[Vm] EXCEPT
                                                !._data = data,
                                                !.beforeDestroy = beforeDestroy])],
                                vm, "beforeCreate"),
                       vm, FALSE),
             vm, "created"))

\* the modules are loaded and no component is constructed
InitInstances == Start([Loaded EXCEPT !.vms = << >>])

\* new Vue({ data, beforeDestroy })
NewVue(datas, handlers) ==
  /\ pc = "idle"
  /\ Len(vms) < MaxInstances
  /\ \E data \in datas, handler \in handlers :
       Done(init(Emit(Cur, "new Vue", data), data, handler))

\* vm.$watch(key, noop) for a key of the data of a component
WatchAny(max) ==
  /\ pc = "idle"
  /\ watcherUid < max
  /\ \E vm \in DOMAIN vms : \E key \in Range(heap[vms[vm]._data].keys) :
       /\ ~vms[vm]._isBeingDestroyed
       /\ Done(watch(Cur, vm, Path(<< key >>), noop, NoOptions))

\* vm.$destroy() is called by the host for one of its components
DestroyAny ==
  /\ pc = "idle"
  /\ \E vm \in DOMAIN vms : Done(destroy(Emit(Cur, "destroy", vm), vm))

NextInstances ==
  \/ NewVue({"data", "o5", "o3"}, {noop, DestroyInHook})
  \/ WatchAny(MaxWatchers)
  \/ DestroyAny

SpecInstances == InitInstances /\ [][NextInstances]_vars

(***************************************************************************)
(* A host program that watches the computed property c, also with a        *)
(* function that reads a before c, with and without the sync option:       *)
(* $watch('c', noop, { sync: true }),                                      *)
(* $watch(function () { this.a; return this.c }, noop, { sync: true }),    *)
(* $watch(function () { this.a; return this.c }, noop).                    *)
(***************************************************************************)
ReadsBoth == [path |-> << "c" >>, throwOn |-> "never", first |-> "a"]

ComputedMenu ==
  {[expOrFn |-> Path(<< "c" >>), cb |-> noop, options |-> Sync],
   [expOrFn |-> ReadsBoth, cb |-> noop, options |-> Sync],
   [expOrFn |-> ReadsBoth, cb |-> noop, options |-> NoOptions]}

NextComputed ==
  \/ Watch(ComputedMenu, MaxOrderWatchers)
  \/ SetData(TeardownValues)
  \/ ReadComputed
  \/ Tick
  \/ FlushStep

SpecComputed == InitConfig /\ [][NextComputed]_vars

(***************************************************************************)
(* A host program with deep watches of a, which holds a number, the object *)
(* o5, or o1, whose property x holds the array o2 that holds o1 again:     *)
(* $watch('a', noop, { deep: true }), $watch('a', noop).                   *)
(***************************************************************************)
DeepValues == [a |-> {"0", "o1", "o5"}]

NextDeep ==
  \/ Watch(RunMenu, MaxWatchers)
  \/ SetData(DeepValues)
  \/ SetProp({"o5"}, {"0", "1"})
  \/ Tick
  \/ FlushStep

SpecDeep == Init /\ [][NextDeep]_vars

(***************************************************************************)
(* A host program whose root component renders the kept-alive component 2  *)
(* while a is 1, and which watches b after it has mounted the root:        *)
(* $watch('b', function () { this.a = 0 }).                                *)
(***************************************************************************)
RenderKeptAlive == [path |-> << "a" >>, throwOn |-> "never", keptAlive |-> 2]

KeepAliveMenu ==
  {[expOrFn |-> Path(<< "b" >>), cb |-> Assign("a", "0"), options |-> NoOptions]}

KeepAliveValues == [a |-> {"0", "1"}, b |-> {"0", "1"}]

NextKeepAlive ==
  \/ Mount(RenderKeptAlive)
  \/ Watch(KeepAliveMenu, MaxWatchers)
  \/ SetData(KeepAliveValues)
  \/ Tick
  \/ FlushStep

SpecKeepAlive == InitComponents /\ [][NextKeepAlive]_vars

(***************************************************************************)
(* A program with one async component factory, which the render functions  *)
(* of three components use: the components render in any order, the        *)
(* factory's promise (or the host, for a factory that takes the two        *)
(* callbacks) resolves and rejects, and the two timers fire.               *)
(***************************************************************************)
\* what the host's factory function does: it keeps the callbacks, or calls
\* resolve at once, or returns a promise, or returns an object with a
\* component promise and some of error, loading, delay and timeout
FactoryMenu ==
  {[kind |-> kind, error |-> FALSE, loading |-> FALSE, delay |-> 0, timeout |-> FALSE] :
     kind \in {"callback", "sync", "promise"}}
  \cup {[kind |-> "options", error |-> error, loading |-> loading, delay |-> delay,
         timeout |-> timeout] :
          error \in BOOLEAN, loading \in BOOLEAN, delay \in {0, 200},
          timeout \in BOOLEAN}

InitAsync ==
  \E def \in FactoryMenu :
    Start([initState(initState(initState(LoadedComponents, 1, FALSE), 2, FALSE),
                     3, FALSE) EXCEPT !.factory = NewFactory(def)])

\* a promise settles once; the host calls the callbacks it keeps at will
Settles ==
  /\ factory.ownersDef
  /\ factory.def.kind \in {"promise", "options"} => ~factory.settled

\* a render function reaches the async component while owner is the
\* rendering instance; NoVm: the host creates the element outside a render
RenderAsync ==
  /\ pc = "idle"
  /\ \E owner \in DOMAIN vms \cup {NoVm} :
       Done(Return(resolveAsyncComponent(Emit(Cur, "render", owner), owner)))

\* the promise resolves, or the host calls resolve
Resolves ==
  /\ pc = "idle"
  /\ Settles
  /\ \E res \in {"Ctor", "Ctor2"} :
       Done(resolve(Emit([Cur EXCEPT !.factory.settled = TRUE], "resolve", res),
                    res))

\* the promise rejects, or the host calls reject
Rejects ==
  /\ pc = "idle"
  /\ Settles
  /\ Done(reject(Emit([Cur EXCEPT !.factory.settled = TRUE], "reject", "reason")))

\* setTimeout(..., res.delay || 200) fires
LoadingTimer ==
  /\ pc = "idle"
  /\ factory.timerLoading = "set"
  /\ Done(LoadingTimeout(Emit(Cur, "timer", "loading")))

\* setTimeout(..., res.timeout) fires
TimeoutTimer ==
  /\ pc = "idle"
  /\ factory.timerTimeout = "set"
  /\ Done(Timeout(Emit(Cur, "timer", "timeout")))

NextAsync ==
  \/ RenderAsync
  \/ Resolves
  \/ Rejects
  \/ LoadingTimer
  \/ TimeoutTimer

SpecAsync == InitAsync /\ [][NextAsync]_vars

(***************************************************************************)
(* Properties.  trace holds the events of the running or the last entry    *)
(* point; a flushSchedulerQueue call starts with the "flush" event that    *)
(* carries the queue as the invalidations left it.                         *)
(***************************************************************************)
\* the positions of the event << what, who >> in trace
At(what, who) == {i \in 1..Len(trace) : trace[i][1] = what /\ trace[i][2] = who}
\* the positions of the events named what
AtAny(what) == {i \in 1..Len(trace) : trace[i][1] = what}
\* trace is the trace of a flush, running or over
Flushing == trace # << >> /\ trace[1][1] = "flush"
\* trace is the trace of a flush that is over
Flushed == Flushing /\ pc = "idle"
\* the Watchers that were invalidated before the flush started
QueuedAtStart == Range(trace[1][2])
\* the Watchers in the order the flush ran them
RunOrder == [i \in 1..Cardinality(AtAny("run")) |->
              trace[CHOOSE j \in AtAny("run") :
                      Cardinality({k \in AtAny("run") : k <= j}) = i][2]]

\* C1: a Watcher that was invalidated, however often, before a flush and
\* is not enqueued again during it is run exactly once in that flush.
C1_Batching ==
  Flushed =>
    \A w \in QueuedAtStart : At("queue", w) = {} => Cardinality(At("run", w)) = 1

\* C2: of two Watchers that were both invalidated before the flush started,
\* in whatever order, the one with the smaller id is run before the other.
C2_Ordering ==
  Flushing =>
    \A p \in QueuedAtStart : \A q \in QueuedAtStart :
      p < q => \A j \in At("run", q) : \E i \in At("run", p) : i < j

\* a flush is over in which the Watcher with the larger id was invalidated
\* first and both Watchers were run
C2_Witness ==
  /\ Flushed
  /\ trace[1][2] = << 2, 1 >>
  /\ RunOrder = << 1, 2 >>

\* the Watchers constructed so far
Watchers == 1..Len(watchers)
\* every enqueueing of w during the flush was followed by a run of w
RunAfterQueued(w) == \A i \in At("queue", w) : \E j \in At("run", w) : j > i

C4_OnlyDivergentSkipped ==
  Flushed =>
    \A W \in Watchers : At("warn", W) # {} =>
      \A w \in Watchers \ {W} :
        /\ w \in QueuedAtStart => At("run", w) # {}
        /\ RunAfterQueued(w)

\* C5: when the flushCallbacks task with a flush is over, also after an
\* evaluation threw, the scheduler state is reset; and whenever a Watcher
\* waits in the queue between tasks, a flushCallbacks task is scheduled.
C5_NeverWedged ==
  /\ Flushed =>
       queue = << >> /\ has = {} /\ index = 0 /\ ~flushing /\ ~waiting
  /\ (pc = "idle" /\ queue # << >>) => timers > 0

\* C6: every active Watcher, other than one stopped at the ceiling, that is
\* enqueued while a flush is running is run later in that flush.
C6_NoneDropped ==
  Flushed =>
    \A w \in Watchers :
      (watchers[w].active /\ At("warn", w) = {}) => RunAfterQueued(w)

\* C7 as stated: the runs of one flush are in ascending order of id.
C7_Ascending ==
  Flushing =>
    \A i \in AtAny("run") : \A j \in AtAny("run") :
      i < j => trace[i][2] <= trace[j][2]

\* C7, amended: a run r2 comes after a run r1 of a larger id only when the
\* Watcher of r2 was enqueued after r1 began.
C7_AscendingAmongPending ==
  Flushing =>
    \A i \in AtAny("run") : \A j \in AtAny("run") :
      (i < j /\ trace[i][2] > trace[j][2]) =>
        \E k \in At("queue", trace[j][2]) : i < k /\ k < j

\* a flush is over in which Watcher 2 was enqueued by the run of Watcher 1
\* while Watcher 3 was pending, and ran between them
C7_Witness ==
  /\ Flushed
  /\ QueuedAtStart = {1, 3}
  /\ At("queue", 2) # {}
  /\ RunOrder = << 1, 2, 3 >>

\* the step sets vm[key] to v
Sets(key, v) == pc = "idle" /\ Done(WriteVm(Emit(Cur, "set", key), Vm, key, v))

\* C8: a step that sets a property to the value it has, NaN included,
\* changes nothing but the record of the step: no value, childOb,
\* subscriber list or Watcher changes, nothing is enqueued or scheduled,
\* and nothing is notified, evaluated or run.
C8_EqualSetChangesNothing ==
  [][\A key \in DOMAIN Values : \A v \in Values[key] :
       (v = heap[vms[Vm]._data].val[key] /\ Sets(key, v)) =>
         /\ trace' = << << "set", key >> >>
         /\ UNCHANGED << heap, props, observers, subs, watchers, vms,
                         queue, has, circular, waiting, flushing, index,
                         callbacks, pending, timers >>]_vars

\* a is NaN, a Watcher is subscribed to a, and the last step set a and
\* notified nobody
C8_Witness ==
  /\ trace = << << "set", "a" >> >>
  /\ heap["data"].val["a"] = NaN
  /\ subs[props[<< "data", "a" >>].dep] # << >>

\* the reads, returns and evaluations in the trace of consecutive reads
Reads == AtAny("read")
Returns == AtAny("value")
Evals == AtAny("eval")

\* C9 as stated: consecutive reads of c with no other step between them
\* evaluate the getter at most once, and not at all after the first read.
C9_EvaluatedOnce ==
  IsRead(trace) =>
    /\ Cardinality(Evals) <= 1
    /\ \A i \in Evals : \A j \in Reads : j < i => j = 1

\* C9, amended: consecutive reads of c evaluate the getter at most once
\* per read; once an evaluation has returned no later read evaluates, and
\* all reads that return return the same value.
C9_EvaluatedOnceUnlessThrown ==
  IsRead(trace) =>
    /\ Cardinality(Evals) <= Cardinality(Reads)
    /\ \A i \in Returns : \A j \in Evals : j < i
    /\ \A i \in Returns : \A j \in Returns : trace[i] = trace[j]
    /\ \A i \in Returns : \A j \in AtAny("uncaught") : j < i

\* c is read MaxReads times in a row, evaluated by the first read only,
\* and every read returns "1"
C9_Witness ==
  /\ IsRead(trace)
  /\ Cardinality(Reads) = MaxReads
  /\ Cardinality(Returns) = MaxReads
  /\ \A i \in Returns : trace[i][2] = "1"
  /\ Evals = {2}

\* the Observers constructed for value V
ObserversOf(V) == {i \in 1..Len(observers) : observers[i].value = V}
\* the last step was observe(V) and returned r
Observed(V, r) == trace = << << "observe", V >>, << "value", r >> >>

\* C10 as stated: every observe(V) returns the one Observer V carries.
C10_Idempotent ==
  \A V \in Objects : \A r \in 0..Len(observers) :
    Observed(V, r) =>
      r # NoObserver /\ heap[V].ob = r /\ ObserversOf(V) = {r}

\* C10, amended: at most one Observer is ever constructed for V; once V
\* carries it V carries it for ever and every observe(V) returns it; and
\* observe(V) returns none only when V is not extensible, is a VNode, or
\* observing is switched off.
C10_IdempotentOnceObserved ==
  /\ [](\A V \in Objects :
          /\ Cardinality(ObserversOf(V)) <= 1
          /\ heap[V].ob # NoObserver => ObserversOf(V) = {heap[V].ob}
          /\ \A r \in 0..Len(observers) :
               Observed(V, r) =>
                 /\ r = heap[V].ob
                 /\ r = NoObserver =>
                      \/ ~heap[V].extensible
                      \/ heap[V].type = "vnode"
                      \/ ~shouldObserve)
  /\ [][\A V \in Objects :
          heap[V].ob # NoObserver => heap'[V].ob = heap[V].ob]_vars

\* observe(o2) returns an Observer while observing is switched off: the
\* Observer that an earlier call constructed
C10_Witness ==
  /\ ~shouldObserve
  /\ \E r \in 1..Len(observers) : Observed("o2", r)

\* the last entry point was a call of a method of an array with an Observer
Called == trace # << >> /\ trace[1][1] = "call" /\ heap[trace[1][2]].ob # NoObserver
\* the call notified the Dep of the array's Observer, once, and no other Dep
NotifiedOnce(arr) ==
  /\ Cardinality(AtAny("notify")) = 1
  /\ \A i \in AtAny("notify") : trace[i][2] = observers[heap[arr].ob].dep
\* the call inserted the structured value in its argument
InsertedObject == trace[2][2] \in {"push", "unshift", "splice"} /\ isObject(trace[3][2])
\* e carries an Observer and the properties of e are reactive
DeeplyObserved(e) ==
  heap[e].ob # NoObserver /\ \A k \in DOMAIN heap[e].val : << e, k >> \in DOMAIN props

\* C11 as stated: a call of an intercepted method of an observed array
\* notifies the array's Dep exactly once, and a structured element it
\* inserts carries an Observer afterwards.
C11_InsertedObserved ==
  Called =>
    /\ NotifiedOnce(trace[1][2])
    /\ InsertedObject => DeeplyObserved(trace[3][2])

\* C11, amended: the call notifies the array's Dep exactly once; a
\* structured element it inserts carries an Observer afterwards when the
\* element is an extensible plain object or array and observing is switched
\* on; and an assignment that changes a reactive property of any object
\* notifies the property's Dep and enqueues every Watcher subscribed to it.
C11_InsertedObservedIfObservable ==
  /\ [](Called =>
          /\ NotifiedOnce(trace[1][2])
          /\ (InsertedObject /\ Observable(Cur, trace[3][2]))
               => DeeplyObserved(trace[3][2]))
  /\ [][(/\ trace' # << >> /\ trace'[1][1] = "assign"
          /\ << trace'[1][2], trace'[2][2] >> \in DOMAIN props
          /\ heap'[trace'[1][2]].val[trace'[2][2]] # heap[trace'[1][2]].val[trace'[2][2]])
         => Bind(props[<< trace'[1][2], trace'[2][2] >>].dep, LAMBDA d :
              /\ \E i \in 1..Len(trace') : trace'[i][1] = "notify" /\ trace'[i][2] = d
              /\ \A w \in Range(subs[d]) : w \in has')]_vars

\* o5 was inserted into the array o2 and carries an Observer, and the last
\* entry point assigned o5.y and so enqueued the Watcher that read it
C11_Witness ==
  /\ trace # << >> /\ trace[1][1] = "assign" /\ trace[1][2] = "o5"
  /\ \E i \in 1..Len(heap["o2"].items) : heap["o2"].items[i] = "o5"
  /\ DeeplyObserved("o5")
  /\ \E i \in 1..Len(trace) : trace[i][1] = "queue"

\* the place in trace where the last evaluation of Watcher w began
LastEval(w) == CHOOSE i \in At("eval", w) : \A j \in At("eval", w) : j <= i
\* the Deps read by the evaluation that began at place i of trace
ReadIn(i) ==
  {trace[j][2] : j \in {j \in (i + 1)..Len(trace) :
                         \A k \in (i + 1)..j : trace[k][1] = "depend"}}
\* how often Watcher w is in the subscriber list of Dep d
Occurrences(w, d) == Cardinality({i \in 1..Len(subs[d]) : subs[d][i] = w})

\* C12: after an evaluation of Watcher w, w is in the subscriber list of a
\* Dep, once, when the evaluation read the Dep, and not at all when it did
\* not.
C12_Reconciled ==
  \A w \in Watchers : At("eval", w) # {} =>
    \A d \in DOMAIN subs :
      Occurrences(w, d) = IF d \in ReadIn(LastEval(w)) THEN 1 ELSE 0

\* a flush re-evaluated the watch of a.x after a changed from o1 to a
\* number: the Watcher has left the Dep of o1.x and is subscribed to the
\* Dep of a alone
C12_Witness ==
  /\ Flushed
  /\ At("run", 1) # {}
  /\ watchers[1].getter.path = << "a", "x" >>
  /\ heap["data"].val["a"] = "0"
  /\ << "o1", "x" >> \in DOMAIN props
  /\ watchers[1].deps = << props[<< "data", "a" >>].dep >>
  /\ \A d \in DOMAIN subs \ {props[<< "data", "a" >>].dep} : Occurrences(1, d) = 0

\* C13: a Watcher that was torn down is inactive and in no Dep's subscriber
\* list, and it is neither evaluated nor is its callback invoked, in its
\* turn of a flush or by a later invalidation.
C13_Cancelled ==
  \A w \in Watchers : ~watchers[w].active =>
    /\ \A d \in DOMAIN subs : Occurrences(w, d) = 0
    /\ At("eval", w) = {} /\ At("cb", w) = {}

\* the events << what, w >> in the trace of the step
AtNext(what, w) == {i \in 1..Len(trace') : trace'[i][1] = what /\ trace'[i][2] = w}

Turn == queue[index + 1]
\* what the getter of Watcher w, a path of one segment, evaluates to
Result(w) == heap[vms[watchers[w].vm]._data].val[watchers[w].getter.path[1]]
\* the step invokes the callback of Watcher w
Invokes(w) == \E i \in (Len(trace) + 1)..Len(trace') : trace'[i][1] = "cb" /\ trace'[i][2] = w

\* C15: when the flush runs an active Watcher, the callback is invoked if
\* and only if the new result is not identical (JavaScript's ===, for which
\* NaN differs from NaN) to the cached value, or is an object,
\* or the Watcher is deep; the cached value becomes the new result when the
\* callback is invoked and is unchanged when it is not.
C15_CallbackIffChanged ==
  [][(pc = "flush" /\ watchers[Turn].active) =>
       /\ Invokes(Turn) <=> \/ ~StrictEq(Result(Turn), watchers[Turn].value)
                            \/ isObject(Result(Turn))
                            \/ watchers[Turn].deep
       /\ watchers'[Turn].value =
            IF Invokes(Turn) THEN Result(Turn) ELSE watchers[Turn].value]_vars

\* a flush is over that ran the plain Watcher 1 without invoking its
\* callback and invoked the callback of the deep Watcher 2, both for a
\* result equal to the cached value
C15_Witness ==
  /\ Flushed
  /\ Len(watchers) = 2 /\ ~watchers[1].deep /\ watchers[2].deep
  /\ At("run", 1) # {} /\ At("cb", 1) = {}
  /\ At("run", 2) # {} /\ At("cb", 2) # {}

\* C16: a Watcher that is not deep, whose cached value is NaN and whose
\* evaluation yields NaN, does not invoke its callback.
C16_NaNEqualsNaN ==
  [][(/\ pc = "flush" /\ watchers[Turn].active /\ ~watchers[Turn].deep
      /\ watchers[Turn].value = NaN /\ Result(Turn) = NaN)
     => ~Invokes(Turn)]_vars

\* the step is Vue.set(tgt, key, val) for a key that tgt, an object that
\* carries an Observer and is no root data, does not have
AddsKey(tgt, key, val) ==
  /\ Len(trace') >= 3
  /\ trace'[1][1] = "Vue.set" /\ trace'[1][2] = tgt
  /\ trace'[2][2] = key /\ trace'[3][2] = val
  /\ key \notin DOMAIN heap[tgt].val
  /\ heap[tgt].ob # NoObserver /\ observers[heap[tgt].ob].vmCount = 0
\* the Watchers that read tgt through the reactive property key of obj
ReadThrough(obj, key, tgt) ==
  {w \in Watchers : /\ << obj, key >> \in DOMAIN props
                     /\ heap[obj].val[key] = tgt
                     /\ props[<< obj, key >>].dep \in Range(watchers[w].deps)}
\* the step notifies Dep d, once, and no other Dep
NotifiesOnce(d) ==
  /\ Cardinality({i \in 1..Len(trace') : trace'[i][1] = "notify"}) = 1
  /\ AtNext("notify", d) # {}
\* the step assigns a new value to the reactive property key of obj
Assigns(obj, key) ==
  /\ Len(trace') >= 2
  /\ trace'[1][1] = "assign" /\ trace'[1][2] = obj /\ trace'[2][2] = key
  /\ << obj, key >> \in DOMAIN props
  /\ heap'[obj].val[key] # heap[obj].val[key]

\* C17 as stated: set with a new key on an observed container that is no
\* root data makes the key reactive with the value, notifies the
\* container's Dep exactly once, and enqueues every Watcher that read the
\* container through a reactive property.
C17_NewKeyNotifies ==
  [][\A tgt \in Objects : \A key \in {"z"} : \A val \in {"0", "1"} :
       AddsKey(tgt, key, val) =>
         /\ << tgt, key >> \in DOMAIN props' /\ heap'[tgt].val[key] = val
         /\ NotifiesOnce(observers[heap[tgt].ob].dep)
         /\ \A obj \in Objects : \A k \in DOMAIN heap[obj].val :
              \A w \in ReadThrough(obj, k, tgt) : w \in has']_vars

\* C17, amended: the Watchers enqueued are those that read the container
\* through a reactive property whose accessor holds the container's
\* Observer; and a later assignment that changes the new property notifies
\* its Dep and enqueues the Watchers subscribed to it.
C17_NewKeyNotifiesSubscribers ==
  [][/\ \A tgt \in Objects : \A key \in {"z"} : \A val \in {"0", "1"} :
          AddsKey(tgt, key, val) =>
            /\ << tgt, key >> \in DOMAIN props' /\ heap'[tgt].val[key] = val
            /\ NotifiesOnce(observers[heap[tgt].ob].dep)
            /\ \A obj \in Objects : \A k \in DOMAIN heap[obj].val :
                 \A w \in ReadThrough(obj, k, tgt) :
                   props[<< obj, k >>].childOb = heap[tgt].ob => w \in has'
     /\ \A obj \in Objects : \A key \in {"z"} :
          Assigns(obj, key) =>
            /\ AtNext("notify", props[<< obj, key >>].dep) # {}
            /\ \A w \in Range(subs[props[<< obj, key >>].dep]) : w \in has']_vars

\* Vue.set(o5, 'z', ...) has made z a reactive property of o5, notified the
\* Dep of o5's Observer and so enqueued the Watcher of a.z
C17_Witness ==
  /\ trace # << >> /\ trace[1][1] = "Vue.set" /\ trace[1][2] = "o5"
  /\ << "o5", "z" >> \in DOMAIN props
  /\ heap["o5"].ob # NoObserver
  /\ \E i \in 1..Len(trace) :
       trace[i][1] = "notify" /\ trace[i][2] = observers[heap["o5"].ob].dep
  /\ At("queue", 1) # {}

\* the step is Vue.set(arr, key, val) for an array arr that carries an
\* Observer and an index that is not below the array's length
SetsBeyond(arr, key, val) ==
  /\ Len(trace') >= 3
  /\ trace'[1][1] = "Vue.set" /\ trace'[1][2] = arr
  /\ trace'[2][2] = key /\ trace'[3][2] = val
  /\ heap[arr].type = "array" /\ heap[arr].ob # NoObserver
  /\ ArrayIndex[key] >= Len(heap[arr].items)

\* C18: set on an observed array with an index at or beyond the length
\* extends the array: afterwards arr[i] is the value and the length is
\* i + 1; the array's Dep is notified exactly once and the value is
\* returned.
C18_SetBeyondLength ==
  [][\A key \in {"i0", "i1"} : \A val \in {"0", "o5"} :
       SetsBeyond("o2", key, val) =>
         /\ Len(heap'["o2"].items) = ArrayIndex[key] + 1
         /\ heap'["o2"].items[ArrayIndex[key] + 1] = val
         /\ NotifiesOnce(observers[heap["o2"].ob].dep)
         /\ Last(trace')[1] = "value" /\ Last(trace')[2] = val]_vars

\* Vue.set(o2, 1, ...) on the empty observed array o2 has left a hole at
\* index 0 and the value at index 1, and has enqueued the Watcher of a.1
C18_Witness ==
  /\ trace # << >> /\ trace[1][1] = "Vue.set" /\ trace[1][2] = "o2"
  /\ heap["o2"].ob # NoObserver
  /\ Len(heap["o2"].items) = 2 /\ heap["o2"].items[1] = Undefined
  /\ At("queue", 1) # {}

\* C19: set and del with a target that is undefined, null or a primitive
\* warn and do not throw; they change nothing and notify nobody, and set
\* returns the value it was given.
C19_InvalidTargetReported ==
  [][\A tgt \in {Undefined, Null, "0"} :
       (/\ trace' # << >> /\ trace'[1][1] \in {"Vue.set", "Vue.delete"}
        /\ trace'[1][2] = tgt)
       => /\ \E i \in 1..Len(trace') : trace'[i][1] = "warn"
          /\ \A i \in 1..Len(trace') : trace'[i][1] \notin {"uncaught", "notify"}
          /\ UNCHANGED << heap, props, observers, subs, watchers, queue, has >>
          /\ trace'[1][1] = "Vue.set" =>
               Last(trace')[1] = "value" /\ Last(trace')[2] = trace'[3][2]]_vars

\* C20: while shouldObserve is false, a step that sets a to an object other
\* than the one a holds commits the object and notifies the Dep of a; no
\* Observer is constructed, so an object without an Observer stays without
\* one and an object with an Observer keeps it, and the accessor's childOb
\* is the Observer the object carries, if any.  observe(V) for a V that
\* carries an Observer returns it.
C20_ToggleOffKeepsTraps ==
  /\ [][\A v \in Objects :
          (~shouldObserve /\ heap["data"].val["a"] # v /\ Sets("a", v)) =>
            /\ heap'["data"].val["a"] = v
            /\ AtNext("notify", props[<< "data", "a" >>].dep) # {}
            /\ observers' = observers
            /\ \A V \in Objects : heap'[V].ob = heap[V].ob
            /\ props'[<< "data", "a" >>].childOb = heap[v].ob]_vars
  /\ [](\A V \in Objects : \A r \in 0..Len(observers) :
          (~shouldObserve /\ Observed(V, r) /\ heap[V].ob # NoObserver)
            => r = heap[V].ob)

\* while shouldObserve is false a was set to o1, which carries no Observer
\* afterwards, and the Dep of a was notified
C20_Witness ==
  /\ ~shouldObserve
  /\ trace # << >> /\ trace[1][1] = "set"
  /\ heap["data"].val["a"] = "o1"
  /\ heap["o1"].ob = NoObserver
  /\ \E i \in 1..Len(trace) : trace[i][1] = "notify"


\* the callbacks a flushCallbacks task ran, in the order of their runs: the
\* host's callbacks by their numbers and flushSchedulerQueue as 0
RanIds(tr) ==
  Bind(SelectSeq(tr, LAMBDA e : e[1] \in {"tick", "flush"}), LAMBDA r :
    [i \in 1..Len(r) |-> IF r[i][1] = "flush" THEN 0 ELSE r[i][2]])

\* the numbers of the callbacks in cbs, in order
Ids(cbs) == [i \in 1..Len(cbs) |-> cbs[i].id]

\* the numbers of the host's callbacks in ids, in order
HostIds(ids) == SelectSeq(ids, LAMBDA n : n > 0)

Ascending(ids) == \A i \in 1..(Len(ids) - 1) : ids[i] < ids[i + 1]

\* the step is the last one of a flushCallbacks task
TaskEnds == pc' = "idle" /\ (pc = "flush" \/ timers' < timers)

\* C21: the callbacks that wait are in the order of the nextTick calls (the
\* host's numbers ascend); a flushCallbacks task runs exactly the callbacks
\* that waited when it started, in that order, the flush where queueWatcher
\* deferred it; the callbacks deferred while the task runs wait when it ends
\* and are later in the order than every callback that ran.
C21_DeferredInCallOrder ==
  /\ [](Ascending(HostIds(Ids(callbacks))))
  /\ [][(pc = "idle" /\ timers' < timers) =>
          Ids(copies') = Ids(callbacks)]_vars
  /\ [][TaskEnds =>
          /\ RanIds(trace') = Ids(copies')
          /\ Ascending(HostIds(RanIds(trace')))
          /\ \A i \in DOMAIN callbacks' : \A j \in DOMAIN copies' :
                callbacks'[i].id > copies'[j].id]_vars

\* a task ran callback 1, which deferred callback 3, then the flush, then
\* callback 2; callback 3 waits
C21_Witness ==
  /\ pc = "idle"
  /\ RanIds(trace) = << 1, 0, 2 >>
  /\ Ids(callbacks) = << 3 >>


\* the callback numbered id ran and the event after its run is an error report
ReportedAfter(tr, id) ==
  \E i \in 1..(Len(tr) - 1) :
    /\ tr[i][1] = "tick" /\ tr[i][2] = id
    /\ tr[i + 1][1] = "error"

\* the callbacks of the host in cbs that throw
Throwing(cbs) == {j \in DOMAIN cbs : cbs[j].kind = "throw"}

\* C22: when a flushCallbacks task ends in which a callback of the host threw,
\* every throw was reported by handleError directly after the callback's run,
\* no exception left the task, and every callback that waited when the task
\* started has run, in the order of the wait.
C22_ThrowingCallbackIsolated ==
  [][(TaskEnds /\ Throwing(copies') # {}) =>
       /\ \A j \in Throwing(copies') : ReportedAfter(trace', copies'[j].id)
       /\ \A i \in DOMAIN trace' : trace'[i][1] # "uncaught"
       /\ Len(RanIds(trace')) = Len(copies')
       /\ \A j \in DOMAIN copies' : RanIds(trace')[j] = copies'[j].id]_vars

\* callback 1 threw, the error was reported, then the flush and callback 2 ran
C22_Witness ==
  /\ pc = "idle"
  /\ ReportedAfter(trace, 1)
  /\ RanIds(trace) = << 1, 0, 2 >>


\* the events of the step: a flush iteration adds its events to the task's
NewEvents == SubSeq(trace', IF pc = "flush" THEN Len(trace) + 1 ELSE 1, Len(trace'))

\* Watcher w was evaluated in the events tr
EvalsIn(tr, w) == \E i \in DOMAIN tr : tr[i][1] = "eval" /\ tr[i][2] = w

\* in the events tr the getter of Watcher w threw and handleError reported
\* it: between the evaluation's start and the report are only reads
GetterReported(tr, w) ==
  \E k \in DOMAIN tr : \E i \in (k + 1)..Len(tr) :
    /\ tr[k][1] = "eval" /\ tr[k][2] = w
    /\ tr[i][1] = "error" /\ tr[i][2] = w
    /\ \A j \in (k + 1)..(i - 1) : tr[j][1] = "depend"

\* the function Watcher w evaluates throws in the state after the step
Throws(w) ==
  watchers'[w].getter.throwOn = heap'["data"].val[watchers'[w].getter.path[1]]

\* the exception left the entry point, or left flushSchedulerQueue
LeftIn(tr) ==
  \E i \in DOMAIN tr :
    \/ tr[i][1] = "uncaught"
    \/ tr[i][1] = "error" /\ tr[i][2] = NoWatcher

\* C23: when the function of a user Watcher throws in an evaluation, the
\* error is reported by handleError and no exception leaves the evaluation:
\* the Watcher's value is undefined when a flush iteration ran it or $watch
\* constructed it, and the Watcher is active.  Every user Watcher is at all
\* times subscribed to the Deps of its last evaluation, and an assignment
\* that changes a while no flush runs leaves every user Watcher pending.
\* When the function of a Watcher that is not a user Watcher throws, the
\* exception leaves the evaluation's caller.
C23_GetterErrors ==
  /\ [][\A w \in 1..Len(watchers') :
          (EvalsIn(NewEvents, w) /\ Throws(w)) =>
            IF watchers'[w].user
            THEN /\ GetterReported(NewEvents, w)
                 /\ ~LeftIn(NewEvents)
                 /\ watchers'[w].value = Undefined
                 /\ watchers'[w].active
            ELSE LeftIn(NewEvents)]_vars
  /\ [](\A w \in 1..Len(watchers) :
          watchers[w].user =>
            /\ watchers[w].active
            /\ watchers[w].deps # << >>
            /\ \A i \in DOMAIN watchers[w].deps :
                  w \in Range(subs[watchers[w].deps[i]]))
  /\ [][(/\ pc = "idle" /\ ~flushing
          /\ heap'["data"].val["a"] # heap["data"].val["a"]) =>
          \A w \in 1..Len(watchers) : watchers[w].user => w \in has']_vars

\* a flush ran user Watcher 1, whose function threw and was reported; the
\* Watcher is active and subscribed to the Dep of a
C23_Witness ==
  /\ trace # << >> /\ trace[1][1] = "flush"
  /\ GetterReported(trace, 1)
  /\ watchers[1].user /\ watchers[1].active
  /\ 1 \in Range(subs[props[<< "data", "a" >>].dep])
  /\ heap["data"].val["a"] = NaN


\* C24: when a flush is over in which an evaluation or a callback threw,
\* every Watcher that was pending when the flush started has been run in it.
C24_SiblingsStillRun ==
  (Flushed /\ AtAny("error") # {}) =>
    \A w \in QueuedAtStart : At("run", w) # {}


\* the subjects of the events named what in tr, in order
Pick(tr, what) ==
  Bind(SelectSeq(tr, LAMBDA e : e[1] = what), LAMBDA r :
    [i \in 1..Len(r) |-> r[i][2]])

Reverse(seq) == [i \in 1..Len(seq) |-> seq[Len(seq) + 1 - i]]

\* the step ends the loop of a flush
Resets == \E i \in DOMAIN NewEvents : NewEvents[i][1] = "reset"

\* the components of the Watchers the flush ran, in the order of the queue
RunVms == Bind(Pick(trace', "run"), LAMBDA r : [i \in DOMAIN r |-> watchers'[r[i]].vm])

\* every event named first in tr is before every event named second
AllBefore(tr, first, second) ==
  \A i \in DOMAIN tr : \A j \in DOMAIN tr :
    (tr[i][1] = first /\ tr[j][1] = second) => i < j

\* C25 as stated: when the loop of a flush ends, the activated hooks are
\* called in the reverse of the order in which queueActivatedComponent
\* registered the components, then the updated hooks in the reverse of the
\* order of the queue.
C25_BothPassesReversed ==
  [][Resets =>
       /\ Pick(trace', "activated") = Reverse(Pick(trace', "queueActivated"))
       /\ Pick(trace', "updated") = Reverse(RunVms)
       /\ AllBefore(trace', "activated", "updated")]_vars

\* C25 amended: when the loop of a flush ends, the activated hooks are
\* called in the order in which queueActivatedComponent registered the
\* components, then the updated hooks in the reverse of the order of the
\* queue.
C25_UpdatedPassReversed ==
  [][Resets =>
       /\ Pick(trace', "activated") = Pick(trace', "queueActivated")
       /\ Pick(trace', "updated") = Reverse(RunVms)
       /\ AllBefore(trace', "activated", "updated")]_vars

\* a flush is over in which the root's patch registered components 2 and 3,
\* in that order, and the render Watchers of three components ran
C25_Witness ==
  /\ Flushed
  /\ Pick(trace, "queueActivated") = << 2, 3 >>
  /\ Len(Pick(trace, "activated")) = 2
  /\ Len(Pick(trace, "updated")) = 3


\* the scheduler flushes that wait in the list of deferred callbacks
PendingFlushes(cbs) == {i \in DOMAIN cbs : cbs[i].kind = "flushSchedulerQueue"}

\* C26: at most one flushSchedulerQueue waits in callbacks at any time, and
\* after an event handler of the host in which Watchers were enqueued,
\* however many, exactly one waits there.
C26_OneFlushPerTurn ==
  /\ [](Cardinality(PendingFlushes(callbacks)) <= 1)
  /\ [][(pc = "idle" /\ pc' = "idle" /\ timers' >= timers
          /\ \E i \in DOMAIN trace' : trace'[i][1] = "queue") =>
          Cardinality(PendingFlushes(callbacks')) = 1]_vars


\* the live nodes the reconciliation applied the operation what to
Applied(what) == Pick(dom.ops, what)

\* the reconciliation of old children [a, b, c, d] against [d, a, b, c]
Rotation ==
  /\ dom.phase = "done"
  /\ dom.oldCh = << "a", "b", "c", "d" >>
  /\ dom.newCh = << "d", "a", "b", "c" >>

\* C27: when the reconciliation of old children [a, b, c, d] against new
\* children [d, a, b, c] is over, no node was created and none destroyed,
\* each of the four live nodes was patched in place, exactly one was moved,
\* the one of d, and the live children are d, a, b, c.
C27_RotationMovesOnce ==
  Rotation =>
    /\ Applied("create") = << >>
    /\ Applied("destroy") = << >>
    /\ Applied("move") = << "d" >>
    /\ Range(Applied("patch")) = Keys
    /\ dom.live = << "d", "a", "b", "c" >>

\* the reconciliation of the rotation is over and the node of d was moved
C27_Witness == Rotation /\ Len(dom.ops) > 0 /\ dom.live[1] = "d"


\* the entries of q after the first n
After(q, n) == SubSeq(q, n + 1, Len(q))

\* the Watchers queueWatcher put in the queue in the step
QueuedInStep == Range(Pick(NewEvents, "queue"))

\* C28: between the iterations of a flush the entries of the queue from the
\* cursor on are in ascending order of id, each Watcher at most once.  An
\* iteration leaves the entries up to the cursor as they were; the entries
\* after the cursor are then the ones that were there and the Watchers
\* enqueued in the iteration, each once, in ascending order of id: a Watcher
\* that was not pending is inserted where the order puts it, directly after
\* the cursor when its id is the smallest, and the enqueueing of a pending
\* Watcher changes nothing.
C28_QueueTailSorted ==
  /\ []((pc = "flush") => Ascending(After(queue, index)))
  /\ [][(pc = "flush" /\ pc' = "flush") =>
          /\ index' = index + 1
          /\ SubSeq(queue', 1, index') = SubSeq(queue, 1, index')
          /\ Ascending(After(queue', index'))
          /\ Range(After(queue', index')) = Range(After(queue, index')) \cup QueuedInStep
          /\ has' = Range(After(queue', index'))]_vars

\* a flush is at its second iteration: the run of Watcher 2 enqueued
\* Watcher 1, which is directly after the cursor and before Watcher 3
C28_Witness ==
  /\ pc = "flush"
  /\ index = 1
  /\ queue = << 2, 1, 3 >>
  /\ At("queue", 1) # {}


\* the Watchers whose callback changes what the Watcher depends on
Togglers == {w \in Watchers : watchers[w].cb.kind = "toggle"}

\* the Watcher the next iteration of the flush runs
Cursor == queue[index + 1]

\* the count circular holds for Watcher w
Counted(w) == IF w \in DOMAIN circular THEN circular[w] ELSE 0

C30_NoDuplicateSubscriber ==
  \A d \in DOMAIN subs :
    \A i \in DOMAIN subs[d] : \A j \in DOMAIN subs[d] :
      subs[d][i] = subs[d][j] => i = j

\* a flush is over that ran Watcher 2, the watch of the computed property c,
\* whose evaluation evaluated the lazy Watcher 1 again: both are subscribed
\* to the Dep of a
C30_Witness ==
  /\ Flushed
  /\ At("run", 2) # {} /\ At("eval", 1) # {}
  /\ subs[props[<< "data", "a" >>].dep] = << 1, 2 >>

\* C31: Dep.target is always the top of targetStack, and every evaluation
\* of a Watcher and every hook call, nested ones and ones that throw
\* included, returns with Dep.target and targetStack as it found them; so
\* between the entry points of the host the stack is empty.
C31_TargetRestored ==
  /\ OnTop([target |-> target, targetStack |-> targetStack])
  /\ targetStack = << >>
  /\ AtAny("unrestored") = {}

\* the watch of c (Watcher 2) evaluated the computed property's Watcher 1
\* inside its own evaluation, and the computed function threw
C31_Witness ==
  /\ \E i \in At("eval", 2) : \E j \in At("eval", 1) : \E k \in At("error", 2) :
       i < j /\ j < k
  /\ target = NoWatcher

\* the components that are constructed and not destroyed and whose root data
\* is value
Attached(value) ==
  {vm \in DOMAIN vms : vms[vm]._data = value /\ ~vms[vm]._isDestroyed}

\* C32: the vmCount of every Observer is the number of components that are
\* constructed and not destroyed and whose root data is the Observer's
\* value; it is never negative.
C32_VmCount ==
  \A ob \in DOMAIN observers :
    /\ observers[ob].vmCount >= 0
    /\ observers[ob].vmCount = Cardinality(Attached(observers[ob].value))

\* the number of times the hook of component vm fired in trace tr
Fired(tr, hook, vm) ==
  Cardinality({i \in DOMAIN tr : tr[i][1] = hook /\ tr[i][2] = vm})

\* the Watchers of component vm are inactive and subscribed to no Dep
TornDown(vm) ==
  \A w \in DOMAIN watchers :
    watchers[w].vm = vm =>
      /\ ~watchers[w].active
      /\ \A d \in DOMAIN subs : w \notin Range(subs[d])

\* C36: $destroy is idempotent.  In every entry point of the host, calls
\* made from a beforeDestroy handler included, the beforeDestroy and the
\* destroyed hook of a component fire at most once, and not at all when the
\* component was destroyed before; the vmCount of an Observer goes down by
\* one for each component on its value that the entry point destroys; and a
\* destroyed component's Watchers are torn down.
C36_DestroyOnce ==
  /\ [][/\ \A vm \in DOMAIN vms :
            LET left == IF vms[vm]._isBeingDestroyed THEN 0 ELSE 1
            IN /\ Fired(trace', "beforeDestroy", vm) <= left
               /\ Fired(trace', "destroyed", vm) <= left
        /\ \A ob \in DOMAIN observers :
             observers'[ob].vmCount >=
               observers[ob].vmCount
                 - Cardinality({vm \in Attached(observers[ob].value) :
                                  vms'[vm]._isDestroyed})]_vars
  /\ [](\A vm \in DOMAIN vms : vms[vm]._isDestroyed => TornDown(vm))

\* no invalidation waits for a flush or for the task that flushes
Settled == pc = "idle" /\ queue = << >> /\ ~waiting /\ callbacks = << >>

\* C33: a computed value is never read stale.  The computed property c
\* returns a; when nothing is pending, the value of every active Watcher that
\* returns c is the value of a, whether the Watcher is queued or sync: it
\* was invalidated by every assignment of a and read c after c was marked
\* dirty.
C33_NeverStale ==
  Settled =>
    \A w \in DOMAIN watchers :
      /\ watchers[w].active /\ ~watchers[w].lazy
      /\ watchers[w].getter.path = << "c" >>
      => watchers[w].value = heap["data"].val["a"]

\* the place of the last read of the evaluation that began at place i
ReadsEnd(i) ==
  CHOOSE j \in i..Len(trace) :
    /\ \A k \in (i + 1)..j : trace[k][1] = "depend"
    /\ j = Len(trace) \/ trace[j + 1][1] # "depend"

\* the last evaluation of Watcher w in trace threw: its reads are followed
\* by the report of handleError or by the host's uncaught error
Failed(w) ==
  /\ At("eval", w) # {}
  /\ LET j == ReadsEnd(LastEval(w))
     IN /\ j < Len(trace)
        /\ trace[j + 1][1] \in {"error", "uncaught"}

\* C34: after an evaluation of Watcher w that threw, w is subscribed to
\* exactly the Deps the evaluation read before the throw, once to each, its
\* deps are those Deps, its newDeps and newDepIds are empty, and Dep.target
\* and targetStack are as before the evaluation.
C34_ReconciledAfterThrow ==
  \A w \in Watchers : Failed(w) =>
    /\ \A d \in DOMAIN subs :
         Occurrences(w, d) = IF d \in ReadIn(LastEval(w)) THEN 1 ELSE 0
    /\ watchers[w].depIds = ReadIn(LastEval(w))
    /\ Range(watchers[w].deps) = ReadIn(LastEval(w))
    /\ watchers[w].newDepIds = {} /\ watchers[w].newDeps = << >>
    /\ target = NoWatcher /\ targetStack = << >>

\* a flush re-evaluated a watch of a.y after a changed from the object o5
\* to a number: the function threw, and the Watcher has left the Dep of
\* o5.y and is subscribed to the Dep of a alone
C34_Witness ==
  \E w \in Watchers :
    /\ Failed(w)
    /\ At("run", w) # {}
    /\ << "o5", "y" >> \in DOMAIN props
    /\ heap["data"].val["a"] = "0"
    /\ watchers[w].deps = << props[<< "data", "a" >>].dep >>
    /\ Occurrences(w, props[<< "o5", "y" >>].dep) = 0

\* the Deps of the properties that are reactive
PropDeps == {props[k].dep : k \in DOMAIN props}

\* the Deps of the properties of the objects that can be reached from value
\* v: o1 and o2 hold each other, o5 holds a number
DepsWithin(v) ==
  CASE v = "o1" -> {props[<< "o1", "x" >>].dep}
    [] v = "o5" -> {props[<< "o5", "y" >>].dep}
    [] OTHER -> {}

\* C35: deep traversal ends on data that holds itself and visits an object
\* once: in an evaluation of a deep Watcher of a, the getter of every
\* reactive property is called at most once.  seenObjects is empty after
\* every call of traverse, so that the next traversal visits all objects:
\* when nothing is pending, every deep Watcher of a is subscribed to the
\* Deps of all properties within the value of a.
C35_TraverseOnce ==
  /\ seenObjects = {}
  /\ \A w \in Watchers : watchers[w].deep =>
       \A i \in At("eval", w) : \A d \in PropDeps :
         Cardinality({j \in (i + 1)..ReadsEnd(i) : trace[j][2] = d}) <= 1
  /\ Settled =>
       \A w \in Watchers : watchers[w].deep /\ watchers[w].active =>
         DepsWithin(heap["data"].val["a"]) \subseteq watchers[w].depIds

\* a flush ran two deep Watchers of a, which holds o1: each has read o1.x
\* and neither has read it twice
C35_Witness ==
  /\ Flushed
  /\ heap["data"].val["a"] = "o1"
  /\ \A w \in {1, 2} :
       /\ w \in Watchers /\ watchers[w].deep
       /\ At("eval", w) # {}
       /\ props[<< "o1", "x" >>].dep \in ReadIn(LastEval(w))

\* C37: the activated and the deactivated hook of a kept-alive component
\* alternate: neither fires twice with no firing of the other in between.
\* The handlers of the host program report a hook that follows itself.
C37_HooksAlternate == AtAny("repeated") = {}

\* C38: in the updated pass of a flush the updated hook of a component fires
\* at most once, and only when the component's render Watcher ran in the
\* flush and the component is mounted and not destroyed.
C38_UpdatedOncePerFlush ==
  Flushed =>
    \A vm \in DOMAIN vms :
      /\ Cardinality(At("updated", vm)) <= 1
      /\ At("updated", vm) # {} =>
           /\ vms[vm]._watcher # NoWatcher
           /\ At("run", vms[vm]._watcher) # {}
           /\ vms[vm]._isMounted /\ ~vms[vm]._isDestroyed

\* the step is a call of resolveAsyncComponent while owner is rendering
Rendered(owner) ==
  trace' # << >> /\ trace'[1][1] = "render" /\ trace'[1][2] = owner

\* the factory was invoked and resolveAsyncComponent has neither a resolved
\* constructor nor an error component to return
AsyncPending ==
  /\ factory.ownersDef
  /\ factory.resolved = Undefined
  /\ ~(factory.error /\ factory.errorComp # Undefined)

\* C39: the host's factory function is invoked at most once, whatever the
\* renders, owners, resolutions, rejections and timeouts; a render while the
\* factory is pending changes nothing of the factory but its owners list,
\* to which it appends the rendering owner unless the list holds it, so
\* that the list never holds an owner twice.
C39_InvokedOnce ==
  /\ [](/\ factory.invoked <= 1
        /\ Cardinality(Range(factory.owners)) = Len(factory.owners))
  /\ [][\A owner \in DOMAIN vms \cup {NoVm} :
          Rendered(owner) /\ AsyncPending =>
            factory' = [factory EXCEPT
                          !.owners = IF owner = NoVm \/ owner \in Range(@)
                                     THEN @ ELSE Append(@, owner)]]_vars

\* a pending owner rendered again after the factory was rejected without an
\* error component, with all three components pending
C39_Witness ==
  /\ factory.invoked = 1
  /\ factory.rejectCalled
  /\ Len(factory.owners) = 3
  /\ trace # << >> /\ trace[1][1] = "render" /\ trace[1][2] = factory.owners[1]

\* what the priority error > resolved > loading > pending gives for factory f
Priority(f) ==
  IF f.error /\ f.errorComp # Undefined THEN f.errorComp
  ELSE IF f.resolved # Undefined THEN f.resolved
  ELSE IF f.loading /\ f.loadingComp # Undefined THEN f.loadingComp
  ELSE Undefined

\* C40: every call of resolveAsyncComponent returns what the priority
\* error > resolved > loading > pending gives for the factory as the call
\* leaves it; the error state, once entered with an error component, is
\* never left, so that every later call returns the error component even
\* when the promise resolves afterwards; a resolve after the first resolve
\* and a reject after the first reject change nothing and warn of nothing.
C40_ErrorFirst ==
  [][/\ (trace' # << >> /\ trace'[1][1] = "render") =>
          /\ trace'[Len(trace')][1] = "value"
          /\ trace'[Len(trace')][2] = Priority(factory')
          /\ factory.error /\ factory.errorComp # Undefined =>
               trace'[Len(trace')][2] = factory.errorComp
     /\ factory.error =>
          factory'.error /\ factory'.errorComp = factory.errorComp
     /\ factory.resolveCalled =>
          /\ factory'.resolved = factory.resolved
          /\ trace'[1][1] = "resolve" =>
               Len(trace') = 1 /\ factory' = [factory EXCEPT !.settled = TRUE]
     /\ factory.rejectCalled =>
          /\ factory'.error = factory.error
          /\ \A i \in 1..Len(trace') : trace'[i][1] # "warn"
          /\ trace'[1][1] = "reject" =>
               Len(trace') = 1 /\ factory' = [factory EXCEPT !.settled = TRUE]]_vars

\* the factory timed out with an error component, its promise resolved
\* afterwards, and a render got the error component
C40_Witness ==
  /\ factory.error /\ factory.resolved # Undefined
  /\ trace # << >> /\ trace[1][1] = "render"
  /\ trace[Len(trace)][1] = "value" /\ trace[Len(trace)][2] = "ErrorComp"

====
